---------------------------- MODULE Spec2Model ----------------------------
(***************************************************************************)
(* Model of the Schiphol flight-data pipeline (src/unnamed/part_000):      *)
(*   - fetchSchipholFlights / fetchAllPages with the apiCache map,         *)
(*   - removeDuplicateFlights, filterFlights, generateCacheKey,            *)
(* and of the pier aggregation of src/components/terminals-chart.tsx.      *)
(* Time is in milliseconds, as Date.now() is.  A call of an async function *)
(* is a small process whose pc names the await it is suspended at.         *)
(***************************************************************************)
EXTENDS Integers, Sequences, FiniteSets, TLC

VARIABLES
    clock,          \* Date.now()
    apiCache,       \* the module-level Map: cache key -> [data, timestamp]
    calls,          \* one record per fetchSchipholFlights call slot
    upstreamPages,  \* number of non-empty pages the provider holds
    dedup,          \* the state of one removeDuplicateFlights call
    filt,           \* the state of one filterFlights call
    keys,           \* two queries and their generateCacheKey results
    chart,          \* the state of the TerminalsChart component
    norm,           \* a raw record and what transformSchipholFlight makes of it
    db              \* the mongoose cache, the dbConnect calls and the job queue

vars == <<clock, apiCache, calls, upstreamPages, dedup, filt, keys, chart, norm, db>>

fetchVars == <<clock, apiCache, calls, upstreamPages>>

(***************************************************************************)
(* Bounds of the model.                                                    *)
(***************************************************************************)
MaxTicks == 4

MaxUpstreamPages == 1

MaxLen == 3

MaxFilterLen == 2

MaxFlights == 3

\* The connection attempts of a behaviour of dbConnect.
MaxAttempts == 3

BlockTotal == 40

(***************************************************************************)
(* Program constants.                                                      *)
(***************************************************************************)
MAX_RETRIES_MORE == 2 + 1

MAX_RETRIES == 2

API_TIMEOUT == 15000

RETRY_DELAY == 500

CACHE_DURATION == 10 * 60 * 1000

CLEANUP_AGE == 15 * 60 * 1000

maxPages == 50

\* The clock advances in steps of five minutes, so that the ages 0, 5, 10, 15
\* and 20 minutes (fresh, exactly CACHE_DURATION, exactly the clean-up age,
\* beyond it) all occur.
TickMs == 5 * 60 * 1000

\* Two call slots: two panels of the dashboard asking at once.
Procs == {1, 2}

(***************************************************************************)
(* removeDuplicateFlights                                                  *)
(***************************************************************************)

\* A lastUpdatedAt string: a well-formed ISO 8601 text "<h>:00:00+<off>:00"
\* (local hour h, UTC offset off), or ill-formed text.
TimeStrings ==
    { [ok |-> FALSE, h |-> 0, off |-> 0],
      [ok |-> TRUE, h |-> 10, off |-> 0],
      [ok |-> TRUE, h |-> 12, off |-> 2],
      [ok |-> TRUE, h |-> 11, off |-> 0] }

FlightNumbers == {1, 2}

DedupFlights == [flightNumber : FlightNumbers, lastUpdatedAt : TimeStrings]

\* new Date(s): the instant in ms, or an Invalid Date (time value NaN).
DateParse(s) ==
    IF s.ok THEN [valid |-> TRUE, ms |-> (s.h - s.off) * 3600000]
            ELSE [valid |-> FALSE, ms |-> 0]

\* a > b on two Date objects: the comparison of their time values, false
\* whenever either is NaN.
DateGT(a, b) == a.valid /\ b.valid /\ a.ms > b.ms

\* flightMap is the Map in key insertion order: a sequence of flights with
\* pairwise different flightNumber.
MapHas(m, k) == \E i \in 1 .. Len(m) : m[i].flightNumber = k

MapGet(m, k) == m[CHOOSE i \in 1 .. Len(m) : m[i].flightNumber = k]

MapSetAppend(m, flight) == Append(m, flight)

\* Map.prototype.set: a present key keeps its place, a new key goes last.
MapSet(m, flight) ==
    IF MapHas(m, flight.flightNumber)
    THEN [i \in 1 .. Len(m) |->
            IF m[i].flightNumber = flight.flightNumber THEN flight ELSE m[i]]
    ELSE Append(m, flight)

\* The condition of line 447.
ShouldStore(m, flight) ==
    \/ ~MapHas(m, flight.flightNumber)
    \/ DateGT(DateParse(flight.lastUpdatedAt),
              DateParse(MapGet(m, flight.flightNumber).lastUpdatedAt))

RECURSIVE SeqsUpTo(_, _)
SeqsUpTo(S, n) ==
    IF n = 0 THEN {<<>>}
    ELSE LET shorter == SeqsUpTo(S, n - 1)
         IN  shorter \cup {Append(s, x) : s \in {t \in shorter : Len(t) = n - 1}, x \in S}

DedupIdle == [pc |-> "idle", flights |-> <<>>, idx |-> 1, flightMap |-> <<>>, out |-> <<>>]

\* removeDuplicateFlights(flights) is entered.
DedupCall(flights) ==
    /\ dedup.pc = "idle"
    /\ dedup' = [pc |-> "forEach", flights |-> flights, idx |-> 1,
                 flightMap |-> <<>>, out |-> <<>>]
    /\ UNCHANGED <<fetchVars, filt, keys, chart, norm, db>>

\* One iteration of flights.forEach.
DedupStep ==
    /\ dedup.pc = "forEach"
    /\ dedup.idx <= Len(dedup.flights)
    /\ LET flight == dedup.flights[dedup.idx]
       IN  dedup' = [dedup EXCEPT
                        !.idx = @ + 1,
                        !.flightMap = IF ShouldStore(@, flight)
                                      THEN MapSet(@, flight) ELSE @]
    /\ UNCHANGED <<fetchVars, filt, keys, chart, norm, db>>

\* return Array.from(flightMap.values())
DedupReturn ==
    /\ dedup.pc = "forEach"
    /\ dedup.idx > Len(dedup.flights)
    /\ dedup' = [dedup EXCEPT !.pc = "returned", !.out = dedup.flightMap]
    /\ UNCHANGED <<fetchVars, filt, keys, chart, norm, db>>

(***************************************************************************)
(* fetchSchipholFlights / fetchAllPages                                    *)
(***************************************************************************)

Dates == {"", "2024-01-01"}      \* "" stands for an absent scheduleDate

Configs ==
    [flightDirection : {"D"}, airline : {"KL"},
     scheduleDate : Dates, fetchAllPages : BOOLEAN]

\* The dashboard's calls carry the schedule date of the day.
CallConfigs == {config \in Configs : config.scheduleDate # ""}

NoConfig ==
    [flightDirection |-> "", airline |-> "", scheduleDate |-> "",
     fetchAllPages |-> FALSE]

generateCacheKeyNoDate(config) ==
    IF config.fetchAllPages
    THEN "dashboard-shared-all-pages"
    ELSE "dashboard-shared-single-page"

generateCacheKey(config) ==
    IF config.fetchAllPages
    THEN LET dateSuffix == IF config.scheduleDate # ""
                           THEN "-" \o config.scheduleDate ELSE ""
         IN  "dashboard-shared-all-pages" \o dateSuffix
    ELSE "dashboard-shared-single-page"

isCacheValidLate(timestamp, now) == now - timestamp <= CACHE_DURATION

isCacheValid(timestamp, now) == now - timestamp < CACHE_DURATION

\* const cached = apiCache.get(cacheKey); cached && isCacheValid(cached.timestamp)
CacheHitFor(cache, key, now) ==
    /\ key \in DOMAIN cache
    /\ isCacheValid(cache[key].timestamp, now)

\* apiCache.set(cacheKey, { data, timestamp: Date.now() })
CacheSet(cache, key, data, now) ==
    [k \in DOMAIN cache \cup {key} |->
        IF k = key THEN [data |-> data, timestamp |-> now] ELSE cache[k]]

\* The clean-up loop of lines 182-187.
CacheCleanup(cache, now) ==
    LET cleanupTime == now - CLEANUP_AGE
        kept == {k \in DOMAIN cache : ~(cache[k].timestamp < cleanupTime)}
    IN  [k \in kept |-> cache[k]]

\* What the provider answers to one request.
HttpStatuses == {200, 429, 401, 403, 408, 504, 500}

ErrorOf(message) == [message |-> message, status |-> 0]

\* What a rejected fetch throws: a network error, or the abort of the timeout.
TransportErrors == {ErrorOf("fetch failed"), ErrorOf("AbortError")}

ResponseOk(status) == status >= 200 /\ status <= 299

\* The flights of page k of the provider's data (one flight per page, named
\* by the page), and the body of an unpaged request.
PageFlights(k) == IF k < upstreamPages THEN <<k>> ELSE <<>>

SinglePageData == [flights |-> PageFlights(0)]

StatusErrorNo504(status) ==
    CASE status = 429 -> ErrorOf("Rate limit exceeded")
      [] status = 401 -> ErrorOf("Invalid API credentials")
      [] status = 403 -> ErrorOf("Access forbidden")
      [] status = 408 -> ErrorOf("Request timeout")
      [] OTHER -> [message |-> "Schiphol API error", status |-> status]

\* The error thrown for a non-ok response in single-page mode (lines 150-166).
StatusError(status) ==
    CASE status = 429 -> ErrorOf("Rate limit exceeded")
      [] status = 401 -> ErrorOf("Invalid API credentials")
      [] status = 403 -> ErrorOf("Access forbidden")
      [] status = 408 \/ status = 504 -> ErrorOf("Request timeout")
      [] OTHER -> [message |-> "Schiphol API error", status |-> status]

NoResult == [kind |-> "none"]

Resolved(data) == [kind |-> "ok", data |-> data]

Rejected(error) == [kind |-> "error", error |-> error]

\* A call slot.  last is the outcome of the request that settled last
\* ("none", "transport", "http", "parse", "empty", "page"), attempts the
\* number of requests issued for the current page, status the HTTP status of
\* the single-page response, backoff the delay of the
\* retry timer that was last armed, timeout the delay of the armed timeout
\* timer of the outstanding request (0 when it is cleared), caught the
\* error held by the catch block of the retry loop.
NoError == ErrorOf("")

CallIdle ==
    [pc |-> "idle", config |-> NoConfig, page |-> 0, retries |-> 0,
     allFlights |-> <<>>, attempts |-> 0, backoff |-> 0, last |-> "none",
     status |-> 0, result |-> NoResult, timeout |-> 0, caught |-> NoError]

\* while (page < maxPages)
LoopCondNoCeiling(page) == TRUE

LoopCond(page) == page < maxPages

\* if (retries >= MAX_RETRIES) throw error
RetriesExhaustedLate(retries) == retries > MAX_RETRIES

RetriesExhausted(retries) == retries >= MAX_RETRIES

RECURSIVE Pow2(_)
Pow2(n) == IF n <= 0 THEN 1 ELSE 2 * Pow2(n - 1)

\* RETRY_DELAY * Math.pow(2, retries - 1)
BackoffDelay(retries) == RETRY_DELAY * Pow2(retries - 1)

\* The result object of lines 297-303.
AllPagesResult(c) ==
    [flights |-> c.allFlights,
     meta |-> [totalCount |-> Len(c.allFlights), pages |-> c.page]]

\* Lines 295-312: build the result, cache it, return it.
FinishAllPages(p, c) ==
    /\ apiCache' = CacheSet(apiCache, generateCacheKey(c.config),
                            AllPagesResult(c), clock)
    /\ calls' = [calls EXCEPT ![p] =
                    [c EXCEPT !.pc = "returned",
                              !.result = Resolved(AllPagesResult(c))]]

(***************************************************************************)
(* Actions of a fetchSchipholFlights call.                                 *)
(***************************************************************************)

\* Lines 91-98: the cache holds a valid entry, which is returned.
CacheHit(p, config) ==
    /\ calls[p].pc = "idle"
    /\ CacheHitFor(apiCache, generateCacheKey(config), clock)
    /\ calls' = [calls EXCEPT ![p] =
                    [CallIdle EXCEPT
                        !.pc = "returned", !.config = config,
                        !.result = Resolved(apiCache[generateCacheKey(config)].data)]]
    /\ UNCHANGED <<clock, apiCache, upstreamPages, dedup, filt, keys, chart, norm, db>>

\* Lines 105-140: a miss in single-page mode issues the one request.
StartSinglePage(p, config) ==
    /\ calls[p].pc = "idle"
    /\ ~CacheHitFor(apiCache, generateCacheKey(config), clock)
    /\ ~config.fetchAllPages
    /\ calls' = [calls EXCEPT ![p] =
                    [CallIdle EXCEPT
                        !.pc = "sp_fetch", !.config = config, !.attempts = 1,
                        !.timeout = API_TIMEOUT]]
    /\ UNCHANGED <<clock, apiCache, upstreamPages, dedup, filt, keys, chart, norm, db>>

\* Lines 101-102, 196-243: a miss with fetchAllPages enters fetchAllPages,
\* which requests page 0.
StartAllPages(p, config) ==
    /\ calls[p].pc = "idle"
    /\ ~CacheHitFor(apiCache, generateCacheKey(config), clock)
    /\ config.fetchAllPages
    /\ IF LoopCond(0)
       THEN /\ calls' = [calls EXCEPT ![p] =
                            [CallIdle EXCEPT
                                !.pc = "mp_fetch", !.config = config,
                                !.attempts = 1, !.timeout = API_TIMEOUT]]
            /\ UNCHANGED apiCache
       ELSE FinishAllPages(p, [CallIdle EXCEPT !.config = config])
    /\ UNCHANGED <<clock, upstreamPages, dedup, filt, keys, chart, norm, db>>

\* The single-page request rejects (network error, or the abort of the
\* timeout): the error propagates to the caller.
SinglePageTransportFailure(p, error) ==
    /\ calls[p].pc = "sp_fetch"
    /\ calls' = [calls EXCEPT ![p] =
                    [@ EXCEPT !.pc = "failed", !.last = "transport",
                              !.timeout = 0,
                              !.result = Rejected(error)]]
    /\ UNCHANGED <<clock, apiCache, upstreamPages, dedup, filt, keys, chart, norm, db>>

\* Lines 145-167: a response that is not ok throws the error of its status.
SinglePageHttpError(p, status) ==
    /\ calls[p].pc = "sp_fetch"
    /\ ~ResponseOk(status)
    /\ calls' = [calls EXCEPT ![p] =
                    [@ EXCEPT !.pc = "failed", !.last = "http",
                              !.status = status, !.timeout = 0,
                              !.result = Rejected(StatusError(status))]]
    /\ UNCHANGED <<clock, apiCache, upstreamPages, dedup, filt, keys, chart, norm, db>>

\* Line 169: response.json() rejects on a body that is not JSON.
SinglePageParseFailure(p) ==
    /\ calls[p].pc = "sp_fetch"
    /\ calls' = [calls EXCEPT ![p] =
                    [@ EXCEPT !.pc = "failed", !.last = "parse",
                              !.status = 200, !.timeout = 0,
                              !.result = Rejected(ErrorOf("SyntaxError"))]]
    /\ UNCHANGED <<clock, apiCache, upstreamPages, dedup, filt, keys, chart, norm, db>>

\* Lines 169-189: the body is cached, old entries are deleted, the body is
\* returned.
SinglePageSuccess(p) ==
    /\ calls[p].pc = "sp_fetch"
    /\ apiCache' = CacheCleanup(
                       CacheSet(apiCache, generateCacheKey(calls[p].config),
                                SinglePageData, clock),
                       clock)
    /\ calls' = [calls EXCEPT ![p] =
                    [@ EXCEPT !.pc = "returned", !.last = "page",
                              !.status = 200, !.timeout = 0,
                              !.result = Resolved(SinglePageData)]]
    /\ UNCHANGED <<clock, upstreamPages, dedup, filt, keys, chart, norm, db>>

(***************************************************************************)
(* Actions of fetchAllPages.                                               *)
(***************************************************************************)

AllPagesTransportFailureNoClear(p, error) ==
    /\ calls[p].pc = "mp_fetch"
    /\ LET c == calls[p]
           retries == c.retries + 1
       IN  calls' = [calls EXCEPT ![p] =
              IF RetriesExhausted(retries)
              THEN [c EXCEPT !.pc = "failed", !.retries = retries,
                             !.last = "transport", !.caught = error,
                             !.result = Rejected(error)]
              ELSE [c EXCEPT !.pc = "mp_backoff", !.retries = retries,
                             !.last = "transport", !.caught = error,
                             !.backoff = BackoffDelay(retries)]]
    /\ UNCHANGED <<clock, apiCache, upstreamPages, dedup, filt, keys, chart, norm, db>>

\* Lines 229-260: the request of the current page rejects; the finally
\* block clears the timeout timer and the catch block counts the attempt.
\* Either the error is thrown out of fetchAllPages, or the retry timer is
\* armed.
AllPagesTransportFailure(p, error) ==
    /\ calls[p].pc = "mp_fetch"
    /\ LET c == [calls[p] EXCEPT !.timeout = 0]
           retries == c.retries + 1
       IN  calls' = [calls EXCEPT ![p] =
              IF RetriesExhausted(retries)
              THEN [c EXCEPT !.pc = "failed", !.retries = retries,
                             !.last = "transport", !.caught = error,
                             !.result = Rejected(error)]
              ELSE [c EXCEPT !.pc = "mp_backoff", !.retries = retries,
                             !.last = "transport", !.caught = error,
                             !.backoff = BackoffDelay(retries)]]
    /\ UNCHANGED <<clock, apiCache, upstreamPages, dedup, filt, keys, chart, norm, db>>

\* Lines 227-243: the retry timer fires and the while loop of the retries
\* runs again.  Leaving that loop without a response makes line 263 throw a
\* TypeError.
AllPagesRetry(p) ==
    /\ calls[p].pc = "mp_backoff"
    /\ calls' = [calls EXCEPT ![p] =
                    IF @.retries < MAX_RETRIES
                    THEN [@ EXCEPT !.pc = "mp_fetch", !.attempts = @ + 1,
                                   !.timeout = API_TIMEOUT, !.caught = NoError]
                    ELSE [@ EXCEPT !.pc = "failed", !.caught = NoError,
                                   !.result = Rejected(ErrorOf("TypeError"))]]
    /\ UNCHANGED <<clock, apiCache, upstreamPages, dedup, filt, keys, chart, norm, db>>

\* Lines 263-267: a response that is not ok ends the loop; what was
\* accumulated is cached and returned.
AllPagesHttpError(p, status) ==
    /\ calls[p].pc = "mp_fetch"
    /\ ~ResponseOk(status)
    /\ FinishAllPages(p, [calls[p] EXCEPT !.last = "http", !.timeout = 0])
    /\ UNCHANGED <<clock, upstreamPages, dedup, filt, keys, chart, norm, db>>

\* Lines 269-275: a body that is not JSON ends the loop.
AllPagesParseFailure(p) ==
    /\ calls[p].pc = "mp_fetch"
    /\ FinishAllPages(p, [calls[p] EXCEPT !.last = "parse", !.timeout = 0])
    /\ UNCHANGED <<clock, upstreamPages, dedup, filt, keys, chart, norm, db>>

\* Lines 277-284: a page without flights ends the loop.
AllPagesEmptyPage(p) ==
    /\ calls[p].pc = "mp_fetch"
    /\ PageFlights(calls[p].page) = <<>>
    /\ FinishAllPages(p, [calls[p] EXCEPT !.last = "empty", !.timeout = 0])
    /\ UNCHANGED <<clock, upstreamPages, dedup, filt, keys, chart, norm, db>>

AllPagesPagePrepend(p) ==
    /\ calls[p].pc = "mp_fetch"
    /\ PageFlights(calls[p].page) # <<>>
    /\ LET c == [calls[p] EXCEPT
                    !.allFlights = PageFlights(calls[p].page) \o @,
                    !.page = @ + 1, !.last = "page", !.timeout = 0]
       IN  IF LoopCond(c.page)
           THEN /\ calls' = [calls EXCEPT ![p] = [c EXCEPT !.pc = "mp_delay"]]
                /\ UNCHANGED apiCache
           ELSE FinishAllPages(p, c)
    /\ UNCHANGED <<clock, upstreamPages, dedup, filt, keys, chart, norm, db>>

\* Lines 286-293: the flights of the page are accumulated and page is
\* incremented; below the ceiling the inter-page timer is armed, at the
\* ceiling the loop ends.
AllPagesPage(p) ==
    /\ calls[p].pc = "mp_fetch"
    /\ PageFlights(calls[p].page) # <<>>
    /\ LET c == [calls[p] EXCEPT
                    !.allFlights = @ \o PageFlights(calls[p].page),
                    !.page = @ + 1, !.last = "page", !.timeout = 0]
       IN  IF LoopCond(c.page)
           THEN /\ calls' = [calls EXCEPT ![p] = [c EXCEPT !.pc = "mp_delay"]]
                /\ UNCHANGED apiCache
           ELSE FinishAllPages(p, c)
    /\ UNCHANGED <<clock, upstreamPages, dedup, filt, keys, chart, norm, db>>

\* Lines 202-243: the inter-page timer fires and the next page is requested.
AllPagesNextPage(p) ==
    /\ calls[p].pc = "mp_delay"
    /\ calls' = [calls EXCEPT ![p] =
                    [@ EXCEPT !.pc = "mp_fetch", !.retries = 0, !.attempts = 1,
                              !.timeout = API_TIMEOUT]]
    /\ UNCHANGED <<clock, apiCache, upstreamPages, dedup, filt, keys, chart, norm, db>>

\* The caller takes the settled promise; the slot is free for another call.
Return(p) ==
    /\ calls[p].pc \in {"returned", "failed"}
    /\ calls' = [calls EXCEPT ![p] = CallIdle]
    /\ UNCHANGED <<clock, apiCache, upstreamPages, dedup, filt, keys, chart, norm, db>>

\* Time passes.
Tick ==
    /\ clock + TickMs <= MaxTicks * TickMs
    /\ clock' = clock + TickMs
    /\ UNCHANGED <<apiCache, calls, upstreamPages, dedup, filt, keys, chart, norm, db>>

(***************************************************************************)
(* filterFlights                                                           *)
(***************************************************************************)

\* Flight names are texts, modelled as sequences of characters.
KLName == <<"K", "L", "1">>

HVName == <<"H", "V", "5">>

\* String.prototype.startsWith
StartsWith(text, prefix) ==
    /\ Len(text) >= Len(prefix)
    /\ SubSeq(text, 1, Len(prefix)) = prefix

\* A scheduleDateTime text.  kind "iso": "2024-01-<day>T<h>:00:00+<off>:00";
\* kind "bad": "2024-01-<day>T" followed by text that is no time; kind
\* "empty": the empty string.  A date text "2024-01-<day>" is the number
\* day, and 0 stands for an absent date.
IsoTime(day, h, off) == [kind |-> "iso", day |-> day, h |-> h, off |-> off]

BadTime(day) == [kind |-> "bad", day |-> day, h |-> 0, off |-> 0]

EmptyTime == [kind |-> "empty", day |-> 0, h |-> 0, off |-> 0]

\* new Date(text).toISOString().split('T')[0]: the UTC date of the instant.
UTCDate(t) == (t.day * 24 + t.h - t.off) \div 24

\* text.split('T')[0]
DatePrefix(t) == t.day

\* The carrier fields, the time fields and the state tags of the flights
\* filterFlights is tried on.
CarrierKinds ==
    { [flightName |-> KLName, mainFlight |-> <<>>, prefixIATA |-> "KL"],
      [flightName |-> KLName, mainFlight |-> <<>>, prefixIATA |-> "HV"],
      [flightName |-> KLName, mainFlight |-> HVName, prefixIATA |-> "HV"],
      [flightName |-> KLName, mainFlight |-> KLName, prefixIATA |-> "HV"],
      [flightName |-> HVName, mainFlight |-> <<>>, prefixIATA |-> "HV"] }

WhenKinds ==
    { [scheduleDateTime |-> IsoTime(1, 10, 0), scheduleDate |-> 1],
      [scheduleDateTime |-> IsoTime(2, 0, 1), scheduleDate |-> 2],
      [scheduleDateTime |-> BadTime(1), scheduleDate |-> 0],
      [scheduleDateTime |-> EmptyTime, scheduleDate |-> 2] }

StateKinds == {<<>>, <<"SCHEDULED">>, <<"CANCELLED">>}

FilterFlight(c, w, st) ==
    [flightName |-> c.flightName, mainFlight |-> c.mainFlight,
     prefixIATA |-> c.prefixIATA,
     scheduleDateTime |-> w.scheduleDateTime, scheduleDate |-> w.scheduleDate,
     flightStates |-> st]

\* The flights of the inputs differ from a KLM flight of day 1 in the
\* carrier, in the time or in the states.
FilterFlightKinds ==
    LET c0 == [flightName |-> KLName, mainFlight |-> <<>>, prefixIATA |-> "KL"]
        w0 == [scheduleDateTime |-> IsoTime(1, 10, 0), scheduleDate |-> 1]
        st0 == <<"SCHEDULED">>
    IN  {FilterFlight(c, w0, st0) : c \in CarrierKinds}
            \cup {FilterFlight(c0, w, st0) : w \in WhenKinds}
            \cup {FilterFlight(c0, w0, st) : st \in StateKinds}
            \cup {FilterFlight([c0 EXCEPT !.flightName = HVName, !.prefixIATA = "HV"],
                                [w0 EXCEPT !.scheduleDateTime = IsoTime(2, 0, 1),
                                           !.scheduleDate = 2],
                                <<"CANCELLED">>)}

\* The filters argument: prefixicao ("" when absent), scheduleDate (an
\* absent date, a date, or a text that is no date), isOperationalFlight
\* ("undefined", "true" or "false").
NoDateFilter == [given |-> FALSE, ok |-> TRUE, day |-> 0]

FilterDates ==
    { NoDateFilter,
      [given |-> TRUE, ok |-> TRUE, day |-> 1],
      [given |-> TRUE, ok |-> FALSE, day |-> 0] }

FilterSets ==
    [prefixicao : {"", "KL", "HV"}, scheduleDate : FilterDates,
     isOperationalFlight : {"undefined", "true", "false"}]

operationalStates == {"SCHEDULED", "BOARDING", "ON_TIME", "DELAYED", "DEPARTED"}

\* flightStates?.some(state => operationalStates.includes(state)) || true
isOperationalFlight(flight) ==
    \/ \E i \in 1 .. Len(flight.flightStates) :
          flight.flightStates[i] \in operationalStates
    \/ TRUE

\* Lines 377-384: the callback of the KLM filter.
IsKLMOperated(flight) ==
    LET mainFlight == IF flight.mainFlight # <<>> THEN flight.mainFlight
                      ELSE flight.flightName
    IN  StartsWith(mainFlight, <<"K", "L">>)

\* Lines 396-406: the date the date filter extracts from a flight.
FlightDate(flight) ==
    IF flight.scheduleDateTime.kind # "empty"
    THEN IF flight.scheduleDateTime.kind = "iso"
         THEN UTCDate(flight.scheduleDateTime)
         ELSE DatePrefix(flight.scheduleDateTime)
    ELSE flight.scheduleDate

\* Lines 375-387.
KLMStage(flights, filters) ==
    IF filters.prefixicao = "KL"
    THEN SelectSeq(flights, IsKLMOperated)
    ELSE flights

\* Lines 389-418.
DateStage(flights, filters) ==
    IF filters.scheduleDate.given
    THEN LET targetDate == filters.scheduleDate.day
             SameDate(flight) == FlightDate(flight) = targetDate
         IN  SelectSeq(flights, SameDate)
    ELSE flights

\* Lines 420-430.
OperationalStage(flights, filters) ==
    IF filters.isOperationalFlight # "undefined"
    THEN LET Keep(flight) ==
                 IF filters.isOperationalFlight = "true"
                 THEN isOperationalFlight(flight) ELSE TRUE
         IN  SelectSeq(flights, Keep)
    ELSE flights

\* The value filterFlights returns.
FilterFlightsOf(flights, filters) ==
    OperationalStage(DateStage(KLMStage(flights, filters), filters), filters)

FilterIdle == [pc |-> "idle", flights |-> <<>>,
               filters |-> [prefixicao |-> "", scheduleDate |-> NoDateFilter,
                            isOperationalFlight |-> "undefined"],
               out |-> <<>>]

\* filterFlights(flights, filters) runs to its return, or to the RangeError
\* that toISOString throws at line 390 for a filter date that is no date.
FilterCall(flights, filters) ==
    /\ filt.pc = "idle"
    /\ filt' = IF filters.scheduleDate.given /\ ~filters.scheduleDate.ok
               THEN [pc |-> "threw", flights |-> flights, filters |-> filters,
                     out |-> <<>>]
               ELSE [pc |-> "returned", flights |-> flights,
                     filters |-> filters,
                     out |-> FilterFlightsOf(flights, filters)]
    /\ UNCHANGED <<fetchVars, dedup, keys, chart, norm, db>>

(***************************************************************************)
(* generateCacheKey on pairs of queries                                    *)
(***************************************************************************)

\* Queries with and without each optional field ("" when absent).
KeyConfigs ==
    [flightDirection : {"", "D", "A"}, airline : {"", "KL"},
     scheduleDate : Dates \cup {"2024-01-02"}, fetchAllPages : BOOLEAN]

KeysIdle == [pc |-> "idle", a |-> NoConfig, b |-> NoConfig, ka |-> "", kb |-> ""]

\* The cache keys of two queries are computed.
KeyQuery(a, b) ==
    /\ keys.pc = "idle"
    /\ keys' = [pc |-> "done", a |-> a, b |-> b,
                ka |-> generateCacheKey(a), kb |-> generateCacheKey(b)]
    /\ UNCHANGED <<fetchVars, dedup, filt, chart, norm, db>>

(***************************************************************************)
(* TerminalsChart: the pier aggregation of fetchData                       *)
(***************************************************************************)

Digits == {"0", "1", "2", "3", "4", "5", "6", "7", "8", "9"}

DigitValue(ch) ==
    CASE ch = "0" -> 0 [] ch = "1" -> 1 [] ch = "2" -> 2 [] ch = "3" -> 3
      [] ch = "4" -> 4 [] ch = "5" -> 5 [] ch = "6" -> 6 [] ch = "7" -> 7
      [] ch = "8" -> 8 [] ch = "9" -> 9

\* text.replace(/\D/g, ""): the digits of the text, in order.
IsDigit(ch) == ch \in Digits

DigitsOf(text) == SelectSeq(text, IsDigit)

\* parseInt of a text of digits: NaN for the empty text.
RECURSIVE DecimalValue(_)
DecimalValue(ds) ==
    IF ds = <<>> THEN 0
    ELSE 10 * DecimalValue(SubSeq(ds, 1, Len(ds) - 1)) + DigitValue(ds[Len(ds)])

ParseInt(ds) ==
    IF ds = <<>> THEN [nan |-> TRUE, n |-> 0]
    ELSE [nan |-> FALSE, n |-> DecimalValue(ds)]

\* gateNumber >= lo && gateNumber <= hi: false for NaN.
InRange(x, lo, hi) == ~x.nan /\ x.n >= lo /\ x.n <= hi

schengenPiers == {"A", "B", "C"}

PierKeyOfMerged(flight) ==
    IF flight.pier = "D" /\ flight.gate # <<>>
    THEN LET gateNumber == ParseInt(DigitsOf(flight.gate))
         IN  IF InRange(gateNumber, 59, 87) THEN "D-Schengen"
             ELSE IF InRange(gateNumber, 1, 58) THEN "D-Non-Schengen"
             ELSE "D"
    ELSE flight.pier

\* Lines 57-78: the key and the type the reduce callback derives.
PierKeyOf(flight) ==
    IF flight.pier = "D" /\ flight.gate # <<>>
    THEN LET gateNumber == ParseInt(DigitsOf(flight.gate))
         IN  IF InRange(gateNumber, 59, 87) THEN "D-Schengen"
             ELSE IF InRange(gateNumber, 1, 57) THEN "D-Non-Schengen"
             ELSE "D"
    ELSE flight.pier

PierTypeOf(flight) ==
    IF flight.pier = "D" /\ flight.gate # <<>>
    THEN LET gateNumber == ParseInt(DigitsOf(flight.gate))
         IN  IF InRange(gateNumber, 59, 87) THEN "Schengen"
             ELSE IF InRange(gateNumber, 1, 57) THEN "Non-Schengen"
             ELSE "Schengen"
    ELSE IF flight.pier \in schengenPiers THEN "Schengen" ELSE "Non-Schengen"

\* The hourly pass without the split of pier D.
HourlyPierKeyOfUnsplit(flight) == flight.pier

\* Lines 128-137: the key the hourly pass derives.
HourlyPierKeyOf(flight) ==
    IF flight.pier = "D" /\ flight.gate # <<>>
    THEN LET gateNumber == ParseInt(DigitsOf(flight.gate))
         IN  IF InRange(gateNumber, 59, 87) THEN "D-Schengen"
             ELSE IF InRange(gateNumber, 1, 57) THEN "D-Non-Schengen"
             ELSE flight.pier
    ELSE flight.pier

\* pierStats is the accumulator object in key insertion order: a sequence
\* of entries with pairwise different pier.
StatsHas(acc, key) == \E i \in 1 .. Len(acc) : acc[i].pier = key

\* Lines 98-100: the counters of the entry of pierKey.
RECURSIVE CountInPier(_, _, _)
CountInPier(acc, pierKey, flight) ==
    IF acc = <<>> THEN <<>>
    ELSE Append(CountInPier(SubSeq(acc, 1, Len(acc) - 1), pierKey, flight),
                LET entry == acc[Len(acc)]
                IN  IF entry.pier = pierKey
                    THEN [entry EXCEPT
                            !.flights = @ + 1,
                            !.arrivals = IF flight.flightDirection = "A" THEN @ + 1 ELSE @,
                            !.departures = IF flight.flightDirection = "A" THEN @ ELSE @ + 1]
                    ELSE entry)

\* Lines 80-101: one call of the reduce callback.
ReduceFlight(acc, flight) ==
    LET pierKey == PierKeyOf(flight)
        created == IF StatsHas(acc, pierKey) THEN acc
                   ELSE Append(acc, [pier |-> pierKey, flights |-> 0,
                                     arrivals |-> 0, departures |-> 0,
                                     utilization |-> 0, status |-> "Low",
                                     type |-> PierTypeOf(flight),
                                     purpose |-> "Mixed operations"])
    IN  IF pierKey # ""
        THEN CountInPier(created, pierKey, flight)
        ELSE acc

\* flights.reduce(..., {}) from the flight of index i on: the callback is
\* called, and its result is at hand, before the next flight is taken.
RECURSIVE ReduceFrom(_, _, _)
ReduceFrom(acc, flights, i) ==
    IF i > Len(flights) THEN acc
    ELSE LET next == ReduceFlight(acc, flights[i])
         IN  IF Len(next) >= Len(acc) THEN ReduceFrom(next, flights, i + 1)
             ELSE next

PierStatsOf(flights) == ReduceFrom(<<>>, flights, 1)

\* The pairs (flights, totalFlights), up to a total of 79, for which the
\* double (flights / totalFlights) * 100 lies just below the exact value
\* x.5, so that Math.round yields x where exact rounding yields x + 1:
\* 23 / 40 is the double 0.57499999999999996, and its product with 100 is
\* the double 57.49999999999999.
DoubleBelowHalf == {<<23, 40>>}

\* Math.round((flights / totalFlights) * 100) in double arithmetic.
MathRoundPercent(count, total) ==
    LET exact == (200 * count + total) \div (2 * total)
    IN  IF <<count, total>> \in DoubleBelowHalf THEN exact - 1 ELSE exact

\* Line 108.
UtilizationOf(count, total) ==
    IF total > 0 THEN MathRoundPercent(count, total) ELSE 0

StatusOfWide(utilization) ==
    IF utilization > 40 THEN "High"
    ELSE IF utilization > 10 THEN "Medium"
    ELSE "Low"

\* Lines 111-113.
StatusOf(utilization) ==
    IF utilization > 20 THEN "High"
    ELSE IF utilization > 10 THEN "Medium"
    ELSE "Low"

\* Array.prototype.sort with (a, b) => b.flights - a.flights: a stable sort
\* by descending flights.
RECURSIVE InsertByFlights(_, _)
InsertByFlights(sorted, entry) ==
    IF sorted = <<>> THEN <<entry>>
    ELSE IF sorted[Len(sorted)].flights >= entry.flights
         THEN Append(sorted, entry)
         ELSE Append(InsertByFlights(SubSeq(sorted, 1, Len(sorted) - 1), entry),
                     sorted[Len(sorted)])

RECURSIVE SortByFlights(_)
SortByFlights(entries) ==
    IF entries = <<>> THEN <<>>
    ELSE InsertByFlights(SortByFlights(SubSeq(entries, 1, Len(entries) - 1)),
                         entries[Len(entries)])

\* Lines 105-120: the map callback on every entry.
RECURSIVE WithUtilization(_, _)
WithUtilization(pierStats, totalFlights) ==
    IF pierStats = <<>> THEN <<>>
    ELSE Append(WithUtilization(SubSeq(pierStats, 1, Len(pierStats) - 1), totalFlights),
                LET pier == pierStats[Len(pierStats)]
                    utilization == UtilizationOf(pier.flights, totalFlights)
                IN  [pier EXCEPT !.utilization = utilization,
                                 !.status = StatusOf(utilization)])

\* Lines 105-121: transformedPierData.
TransformedPierData(flights) ==
    SortByFlights(WithUtilization(PierStatsOf(flights), Len(flights)))

\* Number.prototype.toString of an hour, and of NaN.
DigitChars == <<"0", "1", "2", "3", "4", "5", "6", "7", "8", "9">>

HourToString(hour) ==
    IF hour.nan THEN <<"N", "a", "N">>
    ELSE IF hour.n < 10 THEN <<DigitChars[hour.n + 1]>>
    ELSE <<DigitChars[(hour.n \div 10) + 1], DigitChars[(hour.n % 10) + 1]>>

\* text.padStart(2, '0')
PadStart2(text) == IF Len(text) < 2 THEN <<"0">> \o text ELSE text

\* new Date(text).getHours(): the hour in the local time zone, tz hours
\* east of UTC; NaN for a text that is no date.
GetHours(t, tz) ==
    IF t.kind = "iso" THEN [nan |-> FALSE, n |-> (t.h - t.off + tz + 24) % 24]
    ELSE [nan |-> TRUE, n |-> 0]

\* Lines 141-145: the keys "06" .. "23", each with count 0, in the order
\* of their creation.
RECURSIVE InitialHourlyCounts(_)
InitialHourlyCounts(hour) ==
    IF hour < 6 THEN <<>>
    ELSE Append(InitialHourlyCounts(hour - 1),
                [key |-> PadStart2(HourToString([nan |-> FALSE, n |-> hour])),
                 count |-> 0])

\* Lines 150-152: hourlyCounts[hourStr]++ when the key exists.
RECURSIVE CountInHour(_, _)
CountInHour(hourlyCounts, hourStr) ==
    IF hourlyCounts = <<>> THEN <<>>
    ELSE Append(CountInHour(SubSeq(hourlyCounts, 1, Len(hourlyCounts) - 1), hourStr),
                LET entry == hourlyCounts[Len(hourlyCounts)]
                IN  IF entry.key = hourStr THEN [entry EXCEPT !.count = @ + 1]
                    ELSE entry)

CountFlightNoPad(hourlyCounts, flight, tz) ==
    CountInHour(hourlyCounts, HourToString(GetHours(flight.scheduleDateTime, tz)))

\* Lines 148-153: one call of the forEach callback.
CountFlight(hourlyCounts, flight, tz) ==
    CountInHour(hourlyCounts,
                PadStart2(HourToString(GetHours(flight.scheduleDateTime, tz))))

\* pierFlights.forEach(...) from the flight of index i on.
RECURSIVE CountFrom(_, _, _, _)
CountFrom(hourlyCounts, pierFlights, i, tz) ==
    IF i > Len(pierFlights) THEN hourlyCounts
    ELSE LET next == CountFlight(hourlyCounts, pierFlights[i], tz)
         IN  IF Len(next) >= Len(hourlyCounts)
             THEN CountFrom(next, pierFlights, i + 1, tz)
             ELSE next

HourlyCountsOf(pierFlights, tz) ==
    CountFrom(InitialHourlyCounts(23), pierFlights, 1, tz)

\* A property key is an array index when it is the canonical decimal text
\* of a number: digits only, without a leading zero.
IsArrayIndex(key) ==
    /\ key # <<>>
    /\ \A i \in 1 .. Len(key) : key[i] \in Digits
    /\ (Len(key) = 1 \/ key[1] # "0")

RECURSIVE InsertByKey(_, _)
InsertByKey(sorted, entry) ==
    IF sorted = <<>> THEN <<entry>>
    ELSE IF DecimalValue(sorted[Len(sorted)].key) <= DecimalValue(entry.key)
         THEN Append(sorted, entry)
         ELSE Append(InsertByKey(SubSeq(sorted, 1, Len(sorted) - 1), entry),
                     sorted[Len(sorted)])

RECURSIVE SortByKey(_)
SortByKey(entries) ==
    IF entries = <<>> THEN <<>>
    ELSE InsertByKey(SortByKey(SubSeq(entries, 1, Len(entries) - 1)),
                     entries[Len(entries)])

EntryIsIndex(entry) == IsArrayIndex(entry.key)

EntryIsNoIndex(entry) == ~IsArrayIndex(entry.key)

\* Object.entries / Object.values of an object: the array-index keys in
\* ascending numeric order, then the other keys in the order of creation.
ObjectEntries(obj) ==
    SortByKey(SelectSeq(obj, EntryIsIndex)) \o SelectSeq(obj, EntryIsNoIndex)

RECURSIVE MaxCount(_)
MaxCount(entries) ==
    IF entries = <<>> THEN 0
    ELSE LET rest == MaxCount(SubSeq(entries, 1, Len(entries) - 1))
             last == entries[Len(entries)].count
         IN  IF last > rest THEN last ELSE rest

\* Lines 160-165.  The quotient count / maxFlightsInHour is kept as a
\* fraction.
RECURSIVE BucketsOf(_, _)
BucketsOf(entries, maxFlightsInHour) ==
    IF entries = <<>> THEN <<>>
    ELSE Append(BucketsOf(SubSeq(entries, 1, Len(entries) - 1), maxFlightsInHour),
                LET entry == entries[Len(entries)]
                IN  [hour |-> entry.key \o <<":", "0", "0">>,
                     flights |-> entry.count,
                     intensity |-> IF maxFlightsInHour > 0
                                   THEN [num |-> entry.count, den |-> maxFlightsInHour]
                                   ELSE [num |-> 0, den |-> 1]])

HourlyDensityOf(hourlyCounts) ==
    BucketsOf(ObjectEntries(hourlyCounts), MaxCount(ObjectEntries(hourlyCounts)))

\* Lines 124-166: hourlyDensityData, a bucket list for every key of
\* pierStats.
HourlyDensityData(flights, tz) ==
    LET pierStats == PierStatsOf(flights)
        pierKeys == {pierStats[i].pier : i \in 1 .. Len(pierStats)}
    IN  [pierKey \in pierKeys |->
            LET OfPier(flight) == HourlyPierKeyOf(flight) = pierKey
            IN  HourlyDensityOf(HourlyCountsOf(SelectSeq(flights, OfPier), tz))]

(***************************************************************************)
(* TerminalsChart: the component                                           *)
(***************************************************************************)

\* null, in the numeric fields of PierData
Null == 0 - 1

\* Lines 177-208.
FallbackPierData ==
    << [pier |-> "D", flights |-> Null, arrivals |-> Null, departures |-> Null,
        utilization |-> Null, status |-> "Medium", type |-> "Schengen",
        purpose |-> "Mixed operations"],
       [pier |-> "B", flights |-> Null, arrivals |-> Null, departures |-> Null,
        utilization |-> Null, status |-> "Low", type |-> "Schengen",
        purpose |-> "Mixed operations"],
       [pier |-> "E", flights |-> Null, arrivals |-> Null, departures |-> Null,
        utilization |-> Null, status |-> "High", type |-> "Non-Schengen",
        purpose |-> "Long-haul operations"] >>

\* The flights the /api/flights route is taken to answer with.
GateText(n) == <<"D">> \o HourToString([nan |-> FALSE, n |-> n])

ChartFlight(pier, gate, direction, time) ==
    [pier |-> pier, gate |-> gate, flightDirection |-> direction,
     scheduleDateTime |-> time]

FlightD65 == ChartFlight("D", GateText(65), "D", IsoTime(1, 8, 0))

FlightB == ChartFlight("B", <<"B", "1", "2">>, "D", IsoTime(1, 10, 0))

ChartFlightKinds ==
    { FlightD65, FlightB,
      ChartFlight("D", GateText(99), "D", IsoTime(1, 23, 0)),
      ChartFlight("D", <<>>, "A", BadTime(1)),
      ChartFlight("E", <<"E", "3">>, "A", IsoTime(1, 5, 0)),
      ChartFlight("", <<>>, "D", BadTime(1)) }

BoundaryGates ==
    {GateText(n) : n \in {0, 1, 40, 57, 58, 59, 62, 87, 88}}
        \cup {<<"D">>, <<"D", "6", "A", "2">>}

RECURSIVE Repeat(_, _)
Repeat(x, n) == IF n = 0 THEN <<>> ELSE Append(Repeat(x, n - 1), x)

ChartInputs ==
    SeqsUpTo(ChartFlightKinds, MaxFlights)
        \cup {<<[FlightD65 EXCEPT !.gate = g]>> : g \in BoundaryGates}
        \cup {Repeat(FlightB, n) \o Repeat(FlightD65, BlockTotal - n) :
                 n \in 0 .. BlockTotal}
        \cup {p \in SeqsUpTo({FlightD65, FlightB}, 5) : Len(p) = 5}

\* The offsets from UTC of the browsers the chart is run in.
TimeZones == {0, 2}

\* The runs of fetchData that can be suspended at once: a new run starts
\* with every change of selectedPier.  The bars that change it are not
\* rendered while isLoading is true (line 276), but the effect of a render
\* runs after that render is painted, and a run that ends sets isLoading
\* false whatever other run is still suspended.
ChartRuns == {1, 2}

RunIdle == [pc |-> "idle", selectedPier |-> ""]

\* The component before its first effect: useState's initial values.  ""
\* stands for a selectedPier of null; last records how the latest run of
\* fetchData ended.
ChartInit ==
    [feed |-> <<>>, tz |-> 0, isLoading |-> TRUE, pierData |-> <<>>,
     hourlyDensity |-> [k \in {} |-> <<>>], selectedPier |-> "",
     effectPending |-> TRUE, runs |-> [r \in ChartRuns |-> RunIdle],
     last |-> "none"]

\* The run a call of fetchData becomes: the first that is not suspended.
FreeRun(r) ==
    /\ chart.runs[r].pc = "idle"
    /\ \A q \in ChartRuns : q < r => chart.runs[q].pc # "idle"

\* Lines 42-47, 215-216: the effect runs after the mount and after every
\* render that changed selectedPier; fetchData starts with the
\* selectedPier of that render and is suspended at the fetch.
ChartEffect(r) ==
    /\ chart.effectPending
    /\ FreeRun(r)
    /\ chart' = [chart EXCEPT
                    !.effectPending = FALSE,
                    !.isLoading = TRUE,
                    !.runs[r] = [pc |-> "fetch", selectedPier |-> chart.selectedPier]]
    /\ UNCHANGED <<fetchVars, dedup, filt, keys, norm, db>>

ChartFetchFailedNoFinally(r) ==
    /\ chart.runs[r].pc = "fetch"
    /\ chart' = [chart EXCEPT
                    !.pierData = FallbackPierData,
                    !.last = "failed",
                    !.runs[r] = RunIdle]
    /\ UNCHANGED <<fetchVars, dedup, filt, keys, norm, db>>

\* Lines 47-53, 174-212: the fetch rejects, the response is not ok or its
\* body is no JSON; the catch block and the finally block run.
ChartFetchFailed(r) ==
    /\ chart.runs[r].pc = "fetch"
    /\ chart' = [chart EXCEPT
                    !.pierData = FallbackPierData,
                    !.isLoading = FALSE,
                    !.last = "failed",
                    !.runs[r] = RunIdle]
    /\ UNCHANGED <<fetchVars, dedup, filt, keys, norm, db>>

\* Lines 52-173, 210-212: the flights arrive and are aggregated.
ChartFetchSucceeded(r) ==
    /\ chart.runs[r].pc = "fetch"
    /\ LET flights == chart.feed
           transformedPierData == TransformedPierData(flights)
           selected == IF chart.runs[r].selectedPier = ""
                          /\ Len(transformedPierData) > 0
                       THEN transformedPierData[1].pier
                       ELSE chart.selectedPier
       IN  chart' = [chart EXCEPT
                        !.pierData = transformedPierData,
                        !.hourlyDensity = HourlyDensityData(flights, chart.tz),
                        !.selectedPier = selected,
                        !.effectPending = @ \/ selected # chart.selectedPier,
                        !.isLoading = FALSE,
                        !.last = "succeeded",
                        !.runs[r] = RunIdle]
    /\ UNCHANGED <<fetchVars, dedup, filt, keys, norm, db>>

\* Line 347: a click on the bar of a pier selects it, or deselects it.
ChartClick(pier) ==
    /\ ~chart.isLoading
    /\ ~chart.effectPending
    /\ \E i \in 1 .. Len(chart.pierData) : chart.pierData[i].pier = pier
    /\ chart' = [chart EXCEPT
                    !.selectedPier = IF @ = pier THEN "" ELSE pier,
                    !.effectPending = TRUE]
    /\ UNCHANGED <<fetchVars, dedup, filt, keys, norm, db>>

\* Lines 42-47, 347: a click on a bar of a render whose effect has not run
\* yet.  The effect of that render runs first, with the selectedPier of
\* that render, and the click changes selectedPier for the next render.
ChartClickBeforeEffect(pier, r) ==
    /\ ~chart.isLoading
    /\ chart.effectPending
    /\ FreeRun(r)
    /\ \E i \in 1 .. Len(chart.pierData) : chart.pierData[i].pier = pier
    /\ chart' = [chart EXCEPT
                    !.isLoading = TRUE,
                    !.runs[r] = [pc |-> "fetch", selectedPier |-> chart.selectedPier],
                    !.selectedPier = IF @ = pier THEN "" ELSE pier,
                    !.effectPending = TRUE]
    /\ UNCHANGED <<fetchVars, dedup, filt, keys, norm, db>>

PierKeys == {"D", "B", "E", "D-Schengen", "D-Non-Schengen"}

(***************************************************************************)
(* transformSchipholFlight                                                 *)
(*                                                                         *)
(* A JavaScript value is a record of its type and its text; a text is a    *)
(* sequence of characters, so that split('T') is computed.  The value of   *)
(* an absent property is Undefined.                                        *)
(***************************************************************************)
Undefined == [type |-> "undefined", v |-> <<>>]

Str(text) == [type |-> "string", v |-> text]

Num(digits) == [type |-> "number", v |-> digits]

Arr(items) == [type |-> "array", v |-> items]

\* What `x || ...` tests: undefined, '' and 0 are falsy, an array is truthy.
Truthy(x) ==
    /\ x.type # "undefined"
    /\ ~(x.type = "string" /\ x.v = <<>>)
    /\ ~(x.type = "number" /\ x.v = <<"0">>)

\* a || b
Or(a, b) == IF Truthy(a) THEN a ELSE b

\* The characters of a text before its first 'T': text.split('T')[0].
RECURSIVE BeforeT(_)
BeforeT(text) ==
    IF text = <<>> \/ Head(text) = "T" THEN <<>>
    ELSE <<Head(text)>> \o BeforeT(Tail(text))

\* x?.split('T')[0] for an x that is undefined or a string.
SplitT(x) == IF x.type = "string" THEN Str(BeforeT(x.v)) ELSE Undefined

\* x?.split is called on every x but undefined, and only a string has it.
SplitThrows(x) == x.type \notin {"undefined", "string"}

\* An aircraftType carries its properties; a string or undefined has none.
AircraftObject(main, sub) ==
    [type |-> "object", v |-> <<>>, iataMain |-> main, iataSub |-> sub]

AircraftString(text) ==
    [type |-> "string", v |-> text, iataMain |-> Undefined, iataSub |-> Undefined]

AircraftUndefined ==
    [type |-> "undefined", v |-> <<>>, iataMain |-> Undefined, iataSub |-> Undefined]

\* typeof flight.aircraftType === 'string' ? flight.aircraftType : ''
BareAircraft(a) == IF a.type = "string" THEN Str(a.v) ELSE Str(<<>>)

\* publicFlightState and route: undefined or an object with one property.
NoObject == [type |-> "undefined", inner |-> Undefined]

ObjectOf(inner) == [type |-> "object", inner |-> inner]

\* The properties the function reads that its result does not have.
RawOnlyFields == {"estimatedOffBlockTime", "flightStates", "destinations", "updatedAt"}

\* The record the function returns, read again as a raw record.
AsRaw(flight) ==
    [k \in DOMAIN flight \cup RawOnlyFields |->
        IF k \in DOMAIN flight THEN flight[k] ELSE Undefined]

\* The schedule date: the only expression of the function that can throw.
TransformThrows(flight) ==
    ~Truthy(flight.scheduleDate) /\ SplitThrows(flight.scheduleDateTime)

\* The record transformSchipholFlight returns at time now.
transformSchipholFlight(flight, now) ==
    [flightName |-> Or(flight.flightName, Str(<<>>)),
     flightNumber |-> Or(flight.flightNumber, Num(<<"0">>)),
     flightDirection |-> Or(flight.flightDirection, Str(<<"D">>)),
     scheduleDateTime |-> Or(flight.scheduleDateTime, Or(flight.scheduleDate, Str(<<>>))),
     scheduleDate |-> Or(flight.scheduleDate,
                         Or(SplitT(flight.scheduleDateTime), Str(<<>>))),
     publicEstimatedOffBlockTime |->
         Or(flight.publicEstimatedOffBlockTime,
            Or(flight.estimatedOffBlockTime, Or(flight.scheduleDateTime, Str(<<>>)))),
     publicFlightState |->
         ObjectOf(Or(flight.publicFlightState.inner, Or(flight.flightStates, Arr(<<>>)))),
     aircraftType |->
         AircraftObject(
             Or(flight.aircraftType.iataMain,
                Or(BareAircraft(flight.aircraftType), Str(<<>>))),
             Or(flight.aircraftType.iataSub,
                Or(BareAircraft(flight.aircraftType), Str(<<>>)))),
     gate |-> Or(flight.gate, Str(<<>>)),
     pier |-> Or(flight.pier, Str(<<>>)),
     route |-> ObjectOf(Or(flight.route.inner, Or(flight.destinations, Arr(<<>>)))),
     lastUpdatedAt |-> Or(flight.lastUpdatedAt, Or(flight.updatedAt, Str(now))),
     mainFlight |-> Or(flight.mainFlight, Undefined),
     prefixIATA |-> Or(flight.prefixIATA, Undefined),
     prefixICAO |-> Or(flight.prefixICAO, Undefined)]

\* The properties of a raw record that the model does not vary one by one.
RestKinds ==
    {[flightName |-> Undefined, flightNumber |-> Undefined, gate |-> Undefined,
      pier |-> Undefined, mainFlight |-> Undefined, prefixIATA |-> Undefined,
      prefixICAO |-> Undefined, publicFlightState |-> NoObject,
      flightStates |-> Undefined, route |-> NoObject, destinations |-> Undefined],
     [flightName |-> Str(<<"K", "L">>), flightNumber |-> Num(<<"7">>),
      gate |-> Str(<<"D", "6">>), pier |-> Str(<<"D">>),
      mainFlight |-> Str(<<"K", "L">>), prefixIATA |-> Str(<<"K">>),
      prefixICAO |-> Str(<<"L">>),
      publicFlightState |-> ObjectOf(Arr(<<"SCH">>)), flightStates |-> Undefined,
      route |-> ObjectOf(Arr(<<"LHR">>)), destinations |-> Undefined],
     [flightName |-> Str(<<>>), flightNumber |-> Num(<<"0">>),
      gate |-> Str(<<>>), pier |-> Undefined,
      mainFlight |-> Undefined, prefixIATA |-> Str(<<>>),
      prefixICAO |-> Undefined,
      publicFlightState |-> ObjectOf(Undefined), flightStates |-> Arr(<<"DEP">>),
      route |-> NoObject, destinations |-> Arr(<<>>)]}

DateText == <<"d">>

DateTimeText == <<"d", "T", "h">>

Nows == {<<"n", "T", "1">>, <<"n", "T", "2">>}

\* The raw records the function is applied to.
RawFlights ==
    {[k \in DOMAIN rest \cup {"flightDirection", "scheduleDateTime", "scheduleDate",
                              "publicEstimatedOffBlockTime", "estimatedOffBlockTime",
                              "aircraftType", "lastUpdatedAt", "updatedAt"} |->
        CASE k = "flightDirection" -> direction
          [] k = "scheduleDateTime" -> dateTime
          [] k = "scheduleDate" -> date
          [] k = "publicEstimatedOffBlockTime" -> offBlock[1]
          [] k = "estimatedOffBlockTime" -> offBlock[2]
          [] k = "aircraftType" -> aircraft
          [] k = "lastUpdatedAt" -> updated[1]
          [] k = "updatedAt" -> updated[2]
          [] OTHER -> rest[k]] :
        rest \in RestKinds,
        direction \in {Undefined, Str(<<"A">>), Str(<<"D">>)},
        dateTime \in {Undefined, Str(DateTimeText), Str(<<>>), Num(<<"5">>)},
        date \in {Undefined, Str(DateText)},
        offBlock \in {Undefined, Str(<<"o">>)} \X {Undefined, Str(<<"e">>)},
        aircraft \in {AircraftUndefined, AircraftString(<<"7">>),
                      AircraftObject(Str(<<"7">>), Str(<<"8">>)),
                      AircraftObject(Undefined, Undefined)},
        updated \in {Undefined, Str(<<"u">>)} \X {Undefined, Str(<<"v">>)}}

NormIdle == [pc |-> "idle", raw |-> <<>>, now |-> <<>>, once |-> <<>>, twice |-> <<>>]

\* transformSchipholFlight(raw) at time now: it returns or it throws.
NormalizeCall(raw, now) ==
    /\ norm.pc = "idle"
    /\ norm' = IF TransformThrows(raw)
               THEN [norm EXCEPT !.pc = "threw", !.raw = raw, !.now = now]
               ELSE [norm EXCEPT !.pc = "once", !.raw = raw, !.now = now,
                                 !.once = transformSchipholFlight(raw, now)]
    /\ UNCHANGED <<fetchVars, dedup, filt, keys, chart, db>>

\* transformSchipholFlight applied to the record it returned, at a later time.
NormalizeAgain(now) ==
    /\ norm.pc = "once"
    /\ norm' = [norm EXCEPT !.pc = "twice",
                            !.twice = transformSchipholFlight(AsRaw(norm.once), now)]
    /\ UNCHANGED <<fetchVars, dedup, filt, keys, chart, db>>

(***************************************************************************)
(* dbConnect (src/unnamed/part_001)                                        *)
(*                                                                         *)
(* A call of mongoose.connect is an attempt, numbered from 1; 0 stands for *)
(* null in cached.conn and cached.promise.  A call of dbConnect runs to    *)
(* its await without interruption; its continuation is a job of the        *)
(* microtask queue, and the jobs of a promise are queued, in the order of  *)
(* the awaits, when the promise settles.  A request handler and the end of *)
(* a connection attempt are tasks: they run when the job queue is empty.   *)
(***************************************************************************)
DbCallers == {1, 2, 3}

CallerIdle == [pc |-> "idle", awaits |-> 0, got |-> 0]

\* Lines 20-24: the cache before the first call.
DbInit ==
    [conn |-> 0, promise |-> 0, started |-> 0,
     status |-> [a \in 1 .. MaxAttempts |-> "unused"],
     waiters |-> [a \in 1 .. MaxAttempts |-> <<>>],
     callers |-> [p \in DbCallers |-> CallerIdle],
     jobs |-> <<>>]

Pending(cache) == {a \in 1 .. MaxAttempts : cache.status[a] = "pending"}

\* Lines 27-44: dbConnect from its call to its return or its await.
DbConnect(p) ==
    IF db.conn # 0
    THEN [db EXCEPT !.callers[p] = [pc |-> "returned", awaits |-> 0, got |-> db.conn]]
    ELSE IF db.promise = 0
    THEN LET a == db.started + 1
         IN  [db EXCEPT !.promise = a, !.started = a, !.status[a] = "pending",
                        !.waiters[a] = <<p>>,
                        !.callers[p] = [pc |-> "awaiting", awaits |-> a, got |-> 0]]
    ELSE LET a == db.promise
         IN  [db EXCEPT !.waiters[a] = Append(@, p),
                        !.callers[p] = [pc |-> "awaiting", awaits |-> a, got |-> 0],
                        !.jobs = IF db.status[a] = "pending" THEN @
                                 ELSE Append(@, [kind |-> "resume", caller |-> p])]

\* dbConnect starts a new attempt only below the bound of the model.
CanCall == db.conn # 0 \/ db.promise # 0 \/ db.started < MaxAttempts

\* A request handler calls dbConnect.
DbCall(p) ==
    /\ db.jobs = <<>>
    /\ db.callers[p].pc \in {"idle", "returned", "threw"}
    /\ CanCall
    /\ db' = DbConnect(p)
    /\ UNCHANGED <<fetchVars, dedup, filt, keys, chart, norm>>

\* The handler of a call that threw calls dbConnect again at once: the job
\* that runs the handler was queued when the call threw.
DbCallAgain(p) ==
    /\ db.jobs # <<>>
    /\ Head(db.jobs) = [kind |-> "call", caller |-> p]
    /\ CanCall
    /\ db' = [DbConnect(p) EXCEPT !.jobs = Tail(@)]
    /\ UNCHANGED <<fetchVars, dedup, filt, keys, chart, norm>>

RECURSIVE ResumeJobs(_)
ResumeJobs(waiting) ==
    IF waiting = <<>> THEN <<>>
    ELSE <<[kind |-> "resume", caller |-> Head(waiting)]>> \o ResumeJobs(Tail(waiting))

\* The promise of mongoose.connect settles: the calls that await it are
\* queued in the order of their awaits.
DbAttemptSettles(a, ok) ==
    /\ db.jobs = <<>>
    /\ db.status[a] = "pending"
    /\ db' = [db EXCEPT !.status[a] = IF ok THEN "resolved" ELSE "rejected",
                        !.jobs = ResumeJobs(db.waiters[a])]
    /\ UNCHANGED <<fetchVars, dedup, filt, keys, chart, norm>>

\* Lines 44-53 with a catch block that keeps cached.promise.
DbResumeNoReset(p, again) ==
    /\ db.jobs # <<>>
    /\ Head(db.jobs) = [kind |-> "resume", caller |-> p]
    /\ LET a == db.callers[p].awaits
       IN  IF db.status[a] = "resolved"
           THEN db' = [db EXCEPT !.conn = a, !.jobs = Tail(@),
                                 !.callers[p] = [pc |-> "returned", awaits |-> 0, got |-> a]]
           ELSE db' = [db EXCEPT
                         !.jobs = IF again
                                  THEN Append(Tail(@), [kind |-> "call", caller |-> p])
                                  ELSE Tail(@),
                         !.callers[p] = [pc |-> IF again THEN "retrying" ELSE "threw",
                                         awaits |-> 0, got |-> 0]]
    /\ UNCHANGED <<fetchVars, dedup, filt, keys, chart, norm>>

\* Lines 44-53: the await ends.  The try block stores the connection and
\* the call returns the cache; the catch block resets cached.promise and
\* the call throws, and again tells whether its handler calls once more.
DbResume(p, again) ==
    /\ db.jobs # <<>>
    /\ Head(db.jobs) = [kind |-> "resume", caller |-> p]
    /\ LET a == db.callers[p].awaits
       IN  IF db.status[a] = "resolved"
           THEN db' = [db EXCEPT !.conn = a, !.jobs = Tail(@),
                                 !.callers[p] = [pc |-> "returned", awaits |-> 0, got |-> a]]
           ELSE db' = [db EXCEPT
                         !.promise = 0,
                         !.jobs = IF again
                                  THEN Append(Tail(@), [kind |-> "call", caller |-> p])
                                  ELSE Tail(@),
                         !.callers[p] = [pc |-> IF again THEN "retrying" ELSE "threw",
                                         awaits |-> 0, got |-> 0]]
    /\ UNCHANGED <<fetchVars, dedup, filt, keys, chart, norm>>

(***************************************************************************)
(* Specifications.                                                         *)
(***************************************************************************)

EmptyCache == [k \in {} |-> [data |-> <<>>, timestamp |-> 0]]

\* Concurrent calls against a provider with few pages.
Init ==
    /\ clock = 0
    /\ apiCache = EmptyCache
    /\ calls = [p \in Procs |-> CallIdle]
    /\ upstreamPages \in 0 .. MaxUpstreamPages
    /\ dedup = DedupIdle
    /\ filt = FilterIdle
    /\ keys = KeysIdle
    /\ chart = ChartInit
    /\ norm = NormIdle
    /\ db = DbInit

Next ==
    \/ \E p \in Procs, config \in CallConfigs : CacheHit(p, config)
    \/ \E p \in Procs, config \in CallConfigs : StartSinglePage(p, config)
    \/ \E p \in Procs, config \in CallConfigs : StartAllPages(p, config)
    \/ \E p \in Procs, error \in TransportErrors : SinglePageTransportFailure(p, error)
    \/ \E p \in Procs, status \in HttpStatuses : SinglePageHttpError(p, status)
    \/ \E p \in Procs : SinglePageParseFailure(p)
    \/ \E p \in Procs : SinglePageSuccess(p)
    \/ \E p \in Procs, error \in TransportErrors : AllPagesTransportFailure(p, error)
    \/ \E p \in Procs : AllPagesRetry(p)
    \/ \E p \in Procs, status \in HttpStatuses : AllPagesHttpError(p, status)
    \/ \E p \in Procs : AllPagesParseFailure(p)
    \/ \E p \in Procs : AllPagesEmptyPage(p)
    \/ \E p \in Procs : AllPagesPage(p)
    \/ \E p \in Procs : AllPagesNextPage(p)
    \/ \E p \in Procs : Return(p)
    \/ Tick

Spec == Init /\ [][Next]_vars

\* One fetchAllPages call at a time against a provider that has data for
\* about as many pages as the ceiling allows.
AllPagesConfigs == {config \in CallConfigs : config.fetchAllPages}

InitPages ==
    /\ clock = 0
    /\ apiCache = EmptyCache
    /\ calls = [p \in Procs |-> CallIdle]
    /\ upstreamPages \in {maxPages - 1, maxPages, maxPages + 1}
    /\ dedup = DedupIdle
    /\ filt = FilterIdle
    /\ keys = KeysIdle
    /\ chart = ChartInit
    /\ norm = NormIdle
    /\ db = DbInit

NextPages ==
    \/ \E config \in AllPagesConfigs : CacheHit(1, config)
    \/ \E config \in AllPagesConfigs : StartAllPages(1, config)
    \/ \E error \in TransportErrors : AllPagesTransportFailure(1, error)
    \/ AllPagesRetry(1)
    \/ \E status \in HttpStatuses : AllPagesHttpError(1, status)
    \/ AllPagesParseFailure(1)
    \/ AllPagesEmptyPage(1)
    \/ AllPagesPage(1)
    \/ AllPagesNextPage(1)
    \/ Return(1)

SpecPages == InitPages /\ [][NextPages]_vars

\* Every request settles (the timeout bounds it) and every timer fires.
FairSpecPages == SpecPages /\ WF_vars(NextPages)

\* removeDuplicateFlights on every list of at most MaxLen flights.
InitDedup ==
    /\ clock = 0
    /\ apiCache = EmptyCache
    /\ calls = [p \in Procs |-> CallIdle]
    /\ upstreamPages = 0
    /\ dedup = DedupIdle
    /\ filt = FilterIdle
    /\ keys = KeysIdle
    /\ chart = ChartInit
    /\ norm = NormIdle
    /\ db = DbInit

NextDedup ==
    \/ \E flights \in SeqsUpTo(DedupFlights, MaxLen) : DedupCall(flights)
    \/ DedupStep
    \/ DedupReturn

SpecDedup == InitDedup /\ [][NextDedup]_vars

\* filterFlights on every list of at most MaxFilterLen flights.
InitFilter ==
    /\ clock = 0
    /\ apiCache = EmptyCache
    /\ calls = [p \in Procs |-> CallIdle]
    /\ upstreamPages = 0
    /\ dedup = DedupIdle
    /\ filt = FilterIdle
    /\ keys = KeysIdle
    /\ chart = ChartInit
    /\ norm = NormIdle
    /\ db = DbInit

NextFilter ==
    /\ filt.pc = "idle"
    /\ \E flights \in SeqsUpTo(FilterFlightKinds, MaxFilterLen), filters \in FilterSets :
           FilterCall(flights, filters)

SpecFilter == InitFilter /\ [][NextFilter]_vars

\* generateCacheKey on every pair of queries.
NextKeys == keys.pc = "idle" /\ \E a \in KeyConfigs, b \in KeyConfigs : KeyQuery(a, b)

SpecKeys == InitFilter /\ [][NextKeys]_vars

\* The chart against each feed of ChartInputs.
InitChart ==
    /\ clock = 0
    /\ apiCache = EmptyCache
    /\ calls = [p \in Procs |-> CallIdle]
    /\ upstreamPages = 0
    /\ dedup = DedupIdle
    /\ filt = FilterIdle
    /\ keys = KeysIdle
    /\ chart \in {[ChartInit EXCEPT !.feed = f, !.tz = z] :
                     f \in ChartInputs, z \in TimeZones}
    /\ norm = NormIdle
    /\ db = DbInit

NextChart ==
    \/ \E r \in ChartRuns : ChartEffect(r)
    \/ \E r \in ChartRuns : ChartFetchFailed(r)
    \/ \E r \in ChartRuns : ChartFetchSucceeded(r)
    \/ \E pier \in PierKeys : ChartClick(pier)

SpecChart == InitChart /\ [][NextChart]_vars

\* The chart with the clicks that fall between a render and its effect.
SelectInputs ==
    {<<>>, <<FlightB>>, <<FlightB, FlightD65, FlightD65>>,
     <<FlightD65, FlightB, FlightB>>}

InitSelect ==
    /\ clock = 0
    /\ apiCache = EmptyCache
    /\ calls = [p \in Procs |-> CallIdle]
    /\ upstreamPages = 1
    /\ dedup = DedupIdle
    /\ filt = FilterIdle
    /\ keys = KeysIdle
    /\ chart \in {[ChartInit EXCEPT !.feed = f] : f \in SelectInputs}
    /\ norm = NormIdle
    /\ db = DbInit

NextSelect ==
    \/ NextChart
    \/ \E pier \in PierKeys, r \in ChartRuns : ChartClickBeforeEffect(pier, r)

SpecSelect == InitSelect /\ [][NextSelect]_vars

\* Concurrent calls of dbConnect.
NextDb ==
    \/ \E p \in DbCallers : DbCall(p)
    \/ \E p \in DbCallers : DbCallAgain(p)
    \/ \E a \in 1 .. MaxAttempts, ok \in BOOLEAN : DbAttemptSettles(a, ok)
    \/ \E p \in DbCallers, again \in BOOLEAN : DbResume(p, again)

InitDb ==
    /\ clock = 0
    /\ apiCache = EmptyCache
    /\ calls = [p \in Procs |-> CallIdle]
    /\ upstreamPages = 1
    /\ dedup = DedupIdle
    /\ filt = FilterIdle
    /\ keys = KeysIdle
    /\ chart = ChartInit
    /\ norm = NormIdle
    /\ db = DbInit

SpecDb == InitDb /\ [][NextDb]_vars

\* transformSchipholFlight on every raw record, once and then on its result.
InitNorm ==
    /\ clock = 0
    /\ apiCache = EmptyCache
    /\ calls = [p \in Procs |-> CallIdle]
    /\ upstreamPages = 1
    /\ dedup = DedupIdle
    /\ filt = FilterIdle
    /\ keys = KeysIdle
    /\ chart = ChartInit
    /\ norm = NormIdle
    /\ db = DbInit

NextNorm ==
    \/ \E raw \in RawFlights, now \in Nows : NormalizeCall(raw, now)
    \/ NormalizeAgain(<<"n", "T", "3">>)

SpecNorm == InitNorm /\ [][NextNorm]_vars

(***************************************************************************)
(* Properties.                                                             *)
(***************************************************************************)

OccurrencesIn(seq, n) == Cardinality({i \in 1 .. Len(seq) : seq[i].flightNumber = n})

\* C1: the output of removeDuplicateFlights holds exactly one record for
\* every flight number of the input, and none for any other number, so no
\* two output records share a flight number.
C1_OnePerFlightNumber ==
    dedup.pc = "returned" =>
        \A n \in FlightNumbers :
            OccurrencesIn(dedup.out, n)
                = IF OccurrencesIn(dedup.flights, n) > 0 THEN 1 ELSE 0

\* A call returned whose input repeated a flight number with a later
\* timestamp.
C1_Witness ==
    /\ dedup.pc = "returned"
    /\ Len(dedup.flights) = 3
    /\ Len(dedup.out) = 2
    /\ \E i, j \in 1 .. 3 :
          /\ i < j
          /\ dedup.flights[i].flightNumber = dedup.flights[j].flightNumber
          /\ DateGT(DateParse(dedup.flights[j].lastUpdatedAt),
                    DateParse(dedup.flights[i].lastUpdatedAt))

\* f is later than g: f has an instant and g has none, or an earlier one.
LaterThan(f, g) ==
    LET a == DateParse(f.lastUpdatedAt)
        b == DateParse(g.lastUpdatedAt)
    IN  a.valid /\ (~b.valid \/ a.ms > b.ms)

\* C2: every record removeDuplicateFlights keeps is an input record, and no
\* input record with the same flight number has a later lastUpdatedAt.
C2_KeepsLatest ==
    dedup.pc = "returned" =>
        \A j \in 1 .. Len(dedup.out) :
            /\ \E i \in 1 .. Len(dedup.flights) : dedup.flights[i] = dedup.out[j]
            /\ \A i \in 1 .. Len(dedup.flights) :
                  dedup.flights[i].flightNumber = dedup.out[j].flightNumber
                      => ~LaterThan(dedup.flights[i], dedup.out[j])

InFlight == {"sp_fetch", "mp_fetch"}

Settled == {"returned", "failed"}

\* C3: a call that finds an entry of its key younger than 10 minutes returns
\* the data of that entry, issues no request and leaves the cache alone;
\* any other call issues a request.
C3_HitOnlyWhenFresh ==
    [][\A p \in Procs :
          (calls[p].pc = "idle" /\ calls'[p].pc # "idle") =>
              LET key == generateCacheKey(calls'[p].config)
              IN  IF /\ key \in DOMAIN apiCache
                     /\ clock - apiCache[key].timestamp < 10 * 60 * 1000
                  THEN /\ calls'[p].pc = "returned"
                       /\ calls'[p].result = Resolved(apiCache[key].data)
                       /\ calls'[p].attempts = 0
                       /\ apiCache' = apiCache
                  ELSE /\ calls'[p].pc \in InFlight
                       /\ calls'[p].attempts = 1]_vars

\* A call served from an entry that is five minutes old, and a call that
\* went upstream although an entry of its key, ten minutes old, was there.
C3_Witness ==
    \E p, q \in Procs :
        /\ calls[p].pc = "returned"
        /\ calls[p].attempts = 0
        /\ generateCacheKey(calls[p].config) \in DOMAIN apiCache
        /\ calls[q].pc \in InFlight
        /\ generateCacheKey(calls[q].config) \in DOMAIN apiCache
        /\ clock - apiCache[generateCacheKey(calls[q].config)].timestamp
              = CACHE_DURATION

\* C4: after every write to the cache no entry is older than 15 minutes.
C4_NoOldEntryAfterWrite ==
    [][apiCache' # apiCache =>
          \A k \in DOMAIN apiCache' :
              ~(clock' - apiCache'[k].timestamp > 15 * 60 * 1000)]_vars

\* C5: a fetch that ends on a page or an empty page has its result in the
\* cache when it returns, and a fetch that met a response with an error
\* status or an unparseable body writes nothing to the cache.
C5_OnlySuccessIsCached ==
    [][\A p \in Procs :
          (calls[p].pc \in InFlight /\ calls'[p].pc \in Settled) =>
              /\ (calls'[p].pc = "returned") =>
                    LET key == generateCacheKey(calls'[p].config)
                    IN  /\ key \in DOMAIN apiCache'
                        /\ Resolved(apiCache'[key].data) = calls'[p].result
              /\ (calls'[p].last \in {"http", "parse"}) => apiCache' = apiCache]_vars

\* C6: two calls with the same cache key never both have an upstream
\* request outstanding.
C6_OneUpstreamFetchPerKey ==
    \A p, q \in Procs :
        (/\ p # q
         /\ calls[p].pc \in InFlight
         /\ calls[q].pc \in InFlight)
            => generateCacheKey(calls[p].config) # generateCacheKey(calls[q].config)

\* C7: a multi-page fetch requests only the page indices 0..49, is over
\* once a page came back empty, and every fetch that was started settles.
C7_PageCeiling ==
    \A p \in Procs :
        /\ calls[p].page <= 50
        /\ calls[p].pc \in {"mp_fetch", "mp_backoff", "mp_delay"} => calls[p].page < 50
        /\ calls[p].last = "empty" => calls[p].pc = "returned"

C8_RetryPolicy ==
    [][\A p \in Procs :
          LET c == calls[p]
              d == calls'[p]
          IN  /\ d.attempts <= 2
              /\ (c.attempts >= 1 /\ d.attempts > c.attempts) =>
                    /\ c.pc = "mp_backoff"
                    /\ c.last = "transport"
                    /\ c.backoff = 500 * Pow2(c.attempts - 1)
                    /\ d.page = c.page
                    /\ d.pc = "mp_fetch"
              /\ (c.pc = "mp_fetch" /\ d.pc # "mp_fetch" /\ d.last = "http") =>
                    d.pc = "returned"]_vars

\* The second request of page 1 is outstanding.
C8_Witness ==
    \E p \in Procs :
        /\ calls[p].pc = "mp_fetch"
        /\ calls[p].attempts = 2
        /\ calls[p].page = 1

\* C9: when the last allowed attempt of a page fails, the fetch is rejected
\* with the transport error, the cache is not touched, and the call does
\* nothing more.
C9_ExhaustedRetriesAbort ==
    [][\A p \in Procs :
          LET c == calls[p]
              d == calls'[p]
          IN  /\ (c.pc = "mp_fetch" /\ c.attempts = 2 /\ d.last = "transport"
                    /\ d.pc # "mp_fetch") =>
                    /\ d.pc = "failed"
                    /\ \E e \in TransportErrors : d.result = Rejected(e)
                    /\ apiCache' = apiCache
              /\ (c.pc = "failed" /\ d # c) => d = CallIdle]_vars

\* Page 0 was fetched, both attempts of page 1 failed.
C9_Witness ==
    \E p \in Procs :
        /\ calls[p].pc = "failed"
        /\ calls[p].config.fetchAllPages
        /\ calls[p].page = 1
        /\ calls[p].allFlights # <<>>
        /\ calls[p].attempts = 2

C10_ErrorFor(status) ==
    IF status = 429 THEN ErrorOf("Rate limit exceeded")
    ELSE IF status = 401 THEN ErrorOf("Invalid API credentials")
    ELSE IF status = 403 THEN ErrorOf("Access forbidden")
    ELSE IF status \in {408, 504} THEN ErrorOf("Request timeout")
    ELSE [message |-> "Schiphol API error", status |-> status]

\* C10: a single-page call that misses issues one request and no other; a
\* response with an error status rejects the call with the error of that
\* status and leaves the cache as it was.
C10_SinglePageFailure ==
    [][\A p \in Procs :
          LET c == calls[p]
              d == calls'[p]
          IN  /\ (c.pc = "idle" /\ d.pc = "sp_fetch") => d.attempts = 1
              /\ (c.pc = "sp_fetch" /\ d # c) =>
                    /\ d.pc \in Settled
                    /\ d.attempts = 1
              /\ (c.pc = "sp_fetch" /\ d.last = "http") =>
                    /\ d.pc = "failed"
                    /\ d.result = Rejected(C10_ErrorFor(d.status))
                    /\ apiCache' = apiCache]_vars

\* A single-page call rejected for a 504 while the cache holds an entry.
C10_Witness ==
    \E p \in Procs :
        /\ calls[p].pc = "failed"
        /\ ~calls[p].config.fetchAllPages
        /\ calls[p].last = "http"
        /\ calls[p].status = 504
        /\ DOMAIN apiCache # {}


(***************************************************************************)
(* filterFlights: C11, C12, C18                                            *)
(***************************************************************************)

FilterReturned == filt.pc = "returned"

\* C11: when filterFlights is called with carrier "KL", no record of the
\* output has the operating-carrier prefix (prefixIATA) "HV", whatever its
\* flight name and with or without a mainFlight.
C11_CodeshareExcluded ==
    (FilterReturned /\ filt.filters.prefixicao = "KL") =>
        \A i \in 1 .. Len(filt.out) : filt.out[i].prefixIATA # "HV"

\* The state tags of a record intersect the active set.
HasActiveState(flight) ==
    \E i \in 1 .. Len(flight.flightStates) :
        flight.flightStates[i] \in operationalStates

\* C12: with the operational-status filter enabled, every record of the
\* output has a state tag of the active set or no state tag at all; a
\* record whose tags are all terminal or cancelled is not in the output.
C12_TerminalOnlyExcluded ==
    (FilterReturned /\ filt.filters.isOperationalFlight = "true") =>
        \A i \in 1 .. Len(filt.out) :
            \/ HasActiveState(filt.out[i])
            \/ filt.out[i].flightStates = <<>>

\* The predicates as the description states them: the operating carrier,
\* the scheduled calendar date, the operational status.
SatisfiesEnabled(flight, filters) ==
    /\ filters.prefixicao = "KL" => flight.prefixIATA = "KL"
    /\ filters.scheduleDate.given => FlightDate(flight) = filters.scheduleDate.day
    /\ filters.isOperationalFlight = "true" =>
          (HasActiveState(flight) \/ flight.flightStates = <<>>)

\* C18: the output of filterFlights is the sub-list, in input order, of
\* the records that satisfy every enabled predicate; the order of the
\* stages does not matter and filtering the output again changes nothing.
C18_ConjunctionOfPredicates ==
    FilterReturned =>
        LET Sat(flight) == SatisfiesEnabled(flight, filt.filters)
        IN  /\ filt.out = SelectSeq(filt.flights, Sat)
            /\ filt.out = KLMStage(DateStage(OperationalStage(filt.flights, filt.filters),
                                             filt.filters), filt.filters)
            /\ FilterFlightsOf(filt.out, filt.filters) = filt.out

(***************************************************************************)
(* generateCacheKey: C19                                                   *)
(***************************************************************************)

\* C19: two queries have the same cache key exactly when they agree on the
\* fetch-all-pages flag and, if it is set, on the schedule date; direction
\* and carrier never matter, and the date does not matter for single-page
\* queries.
C19_KeyDependsOnFlagAndDate ==
    keys.pc = "done" =>
        ((keys.ka = keys.kb) <=>
            /\ keys.a.fetchAllPages = keys.b.fetchAllPages
            /\ keys.a.fetchAllPages => keys.a.scheduleDate = keys.b.scheduleDate)

\* Two all-pages queries for one date that differ in direction and carrier.
C19_Witness ==
    /\ keys.pc = "done"
    /\ keys.a.fetchAllPages /\ keys.b.fetchAllPages
    /\ keys.a.scheduleDate = keys.b.scheduleDate
    /\ keys.a.flightDirection # keys.b.flightDirection
    /\ keys.a.airline # keys.b.airline
    /\ keys.ka = keys.kb



(***************************************************************************)
(* Pier statistics: C13, C14, C15, C20                                     *)
(***************************************************************************)

\* The latest run of fetchData aggregated the feed.
Aggregated == chart.last = "succeeded"

GateNumberOf(flight) == ParseInt(DigitsOf(flight.gate))

\* The grouping key of a flight at pier D with a gate, nonSchengen being
\* the key of the gates 1..57.
GateKey(flight, nonSchengen) ==
    LET gateNumber == GateNumberOf(flight)
    IN  IF ~gateNumber.nan /\ gateNumber.n \in 59 .. 87 THEN "D-Schengen"
        ELSE IF ~gateNumber.nan /\ gateNumber.n \in 1 .. 57 THEN nonSchengen
        ELSE "D"

GateType(flight) ==
    LET gateNumber == GateNumberOf(flight)
    IN  IF ~gateNumber.nan /\ gateNumber.n \in 1 .. 57 THEN "Non-Schengen"
        ELSE "Schengen"

\* Every flight at pier D with a gate is counted in the group of its gate
\* range, and a group such a flight creates has the type of that range.
GateRanges(nonSchengen) ==
    Aggregated =>
        \A i \in 1 .. Len(chart.feed) :
            LET flight == chart.feed[i]
                key == GateKey(flight, nonSchengen)
            IN  (flight.pier = "D" /\ flight.gate # <<>>) =>
                    \E j \in 1 .. Len(chart.pierData) :
                        /\ chart.pierData[j].pier = key
                        /\ (\A k \in 1 .. i - 1 : PierKeyOf(chart.feed[k]) # key) =>
                               chart.pierData[j].type = GateType(flight)

RoundedQuotient(x, y) == (2 * x + y) \div (2 * y)

\* C14: for every pier statistic of a non-empty flight list, utilization is
\* round(flights of the pier / number of flights x 100), and the status is
\* High exactly when utilization > 20, Medium exactly when
\* 10 < utilization <= 20, and Low otherwise.
C14_UtilizationAndTier ==
    (Aggregated /\ chart.feed # <<>>) =>
        \A j \in 1 .. Len(chart.pierData) :
            LET pier == chart.pierData[j]
            IN  /\ pier.utilization = RoundedQuotient(100 * pier.flights, Len(chart.feed))
                /\ pier.status = "High" <=> pier.utilization > 20
                /\ pier.status = "Medium" <=>
                      (pier.utilization > 10 /\ pier.utilization <= 20)
                /\ pier.status = "Low" <=> pier.utilization <= 10



\* The number of flights of the feed at a pier and, when given, a gate.
RECURSIVE CountAt(_, _, _)
CountAt(flights, pier, gate) ==
    IF flights = <<>> THEN 0
    ELSE CountAt(SubSeq(flights, 1, Len(flights) - 1), pier, gate)
            + (IF /\ flights[Len(flights)].pier = pier
                  /\ (gate # <<>> => flights[Len(flights)].gate = gate)
               THEN 1 ELSE 0)

\* The payload of 5 flights: 3 at pier D with gate D65, 2 at pier B.
FivePayload ==
    /\ Len(chart.feed) = 5
    /\ CountAt(chart.feed, "D", GateText(65)) = 3
    /\ CountAt(chart.feed, "B", <<>>) = 2

\* The two statistics of the payload, with tierOfB as the status of B.
FiveStats(tierOfB) ==
    (Aggregated /\ FivePayload) =>
        /\ Len(chart.pierData) = 2
        /\ LET d == chart.pierData[1]
               b == chart.pierData[2]
           IN  /\ d.pier = "D-Schengen" /\ d.flights = 3
               /\ d.utilization = 60 /\ d.status = "High"
               /\ b.pier = "B" /\ b.flights = 2
               /\ b.utilization = 40 /\ b.status = tierOfB

\* C15 as stated: the payload yields D-Schengen with 3 flights, 60% and
\* High, and B with 2 flights, 40% and Medium.
C15_FiveStatsAsStated == FiveStats("Medium")

\* C15, amended: B, with 40%, has the status High.
C15_FiveStats == FiveStats("High")

C15_Witness == Aggregated /\ FivePayload /\ Len(chart.pierData) = 2



(***************************************************************************)
(* Hourly density: C16                                                     *)
(***************************************************************************)

\* "06:00" .. "23:00" for k = 1 .. 18.
HourLabel(k) ==
    PadStart2(HourToString([nan |-> FALSE, n |-> k + 5])) \o <<":", "0", "0">>

\* C16: for every pier key of the pier statistics the hourly density has
\* exactly 18 buckets, for the hours 06 .. 23 in ascending order; the
\* intensity of a bucket is its count divided by the largest count of the
\* pier, so it lies in [0, 1]; some bucket has intensity 1 when a bucket is
\* non-empty, and every intensity is 0 when all buckets are empty.
C16_HourlyBuckets ==
    Aggregated =>
        \A j \in 1 .. Len(chart.pierData) :
            LET pierKey == chart.pierData[j].pier
            IN  /\ pierKey \in DOMAIN chart.hourlyDensity
                /\ LET buckets == chart.hourlyDensity[pierKey]
                       NonEmpty == \E k \in 1 .. Len(buckets) : buckets[k].flights > 0
                   IN  /\ Len(buckets) = 18
                       /\ \A k \in 1 .. Len(buckets) :
                             /\ buckets[k].hour = HourLabel(k)
                             /\ buckets[k].intensity.den > 0
                             /\ buckets[k].intensity.num >= 0
                             /\ buckets[k].intensity.num <= buckets[k].intensity.den
                             /\ NonEmpty =>
                                   /\ buckets[k].intensity.num = buckets[k].flights
                                   /\ \A m \in 1 .. Len(buckets) :
                                         buckets[m].flights <= buckets[k].intensity.den
                             /\ ~NonEmpty => buckets[k].intensity.num = 0
                       /\ NonEmpty =>
                             \E k \in 1 .. Len(buckets) :
                                 buckets[k].intensity.num = buckets[k].intensity.den



(***************************************************************************)
(* Failure of the flight fetch: C17                                        *)
(***************************************************************************)

\* A step in which a run of fetchData ends.
RunEnds == \E r \in ChartRuns : chart.runs[r].pc = "fetch" /\ chart'.runs[r].pc = "idle"

\* C17: when the flight fetch fails, the aggregation is not run (the
\* hourly density and the selection stay as they were), the pier data
\* becomes the placeholder of the three piers D, B and E with null counts,
\* and the loading flag ends false; the loading flag also ends false after
\* a successful fetch.
C17_FallbackOnFailure ==
    [][RunEnds =>
          /\ chart'.isLoading = FALSE
          /\ chart'.last = "failed" =>
                /\ chart'.pierData = FallbackPierData
                /\ Len(chart'.pierData) = 3
                /\ \A j \in 1 .. 3 :
                      /\ chart'.pierData[j].pier = <<"D", "B", "E">>[j]
                      /\ chart'.pierData[j].flights = Null
                      /\ chart'.pierData[j].arrivals = Null
                      /\ chart'.pierData[j].departures = Null
                /\ chart'.hourlyDensity = chart.hourlyDensity
                /\ chart'.selectedPier = chart.selectedPier]_vars

\* A fetch failed after an earlier one had succeeded.
C17_Witness ==
    /\ chart.last = "failed"
    /\ ~chart.isLoading
    /\ chart.pierData = FallbackPierData
    /\ DOMAIN chart.hourlyDensity # {}



(***************************************************************************)
(* Order of the flights: C20                                               *)
(***************************************************************************)

StatsSet(pierData) == {pierData[j] : j \in 1 .. Len(pierData)}

Reordered(flights, p) == [i \in 1 .. Len(flights) |-> flights[p[i]]]

\* C20: the set of pier statistics (key, flight, arrival and departure
\* counts, utilization, status and Schengen type of every group) computed
\* from a list of flights is the same for every permutation of the list.
C20_OrderInsensitive ==
    (Aggregated /\ Len(chart.feed) <= MaxFlights) =>
        \A p \in Permutations(1 .. Len(chart.feed)) :
            StatsSet(TransformedPierData(Reordered(chart.feed, p)))
                = StatsSet(chart.pierData)



(***************************************************************************)
(* removeDuplicateFlights, ties: C21                                       *)
(***************************************************************************)

\* The indices of the input records of flight number n that no record of
\* the same number is later than.
LatestOf(flights, n) ==
    {i \in 1 .. Len(flights) :
        /\ flights[i].flightNumber = n
        /\ \A k \in 1 .. Len(flights) :
              flights[k].flightNumber = n => ~LaterThan(flights[k], flights[i])}

FirstIndex(indices) == CHOOSE i \in indices : \A k \in indices : i <= k

\* C21: when several input records share a flight number and the maximum
\* lastUpdatedAt, removeDuplicateFlights keeps the one of them that comes
\* first in the input.
C21_FirstOfLatestWins ==
    dedup.pc = "returned" =>
        \A n \in FlightNumbers :
            LET latest == LatestOf(dedup.flights, n)
            IN  Cardinality(latest) > 1 =>
                    \E j \in 1 .. Len(dedup.out) :
                        dedup.out[j] = dedup.flights[FirstIndex(latest)]



(***************************************************************************)
(* fetchAllPages, order of the pages: C22                                  *)
(***************************************************************************)

MultiPage == {"mp_fetch", "mp_backoff", "mp_delay"}

\* The flights of the pages 0 .. n - 1, page after page.
RECURSIVE PagesUpTo(_)
PagesUpTo(n) == IF n = 0 THEN <<>> ELSE PagesUpTo(n - 1) \o PageFlights(n - 1)

\* C22: within one multi-page fetch the pages are requested one after the
\* other from index 0 upwards: page k + 1 is requested only after the
\* response for page k came and held flights, a request is issued only
\* when none of the fetch is outstanding, and the flights returned are
\* those of the fetched pages in page order, counted by meta.totalCount.
C22_SequentialPages ==
    [][\A p \in Procs :
          LET c == calls[p]
              d == calls'[p]
          IN  /\ (c.pc = "idle" /\ d.pc \in MultiPage) =>
                    (d.pc = "mp_fetch" /\ d.page = 0)
              /\ (c.pc # "mp_fetch" /\ d.pc = "mp_fetch") =>
                    c.pc \in {"idle", "mp_backoff", "mp_delay"}
              /\ (c.pc \in MultiPage /\ d.pc # "idle" /\ d.page # c.page) =>
                    /\ c.pc = "mp_fetch"
                    /\ PageFlights(c.page) # <<>>
                    /\ d.last = "page"
                    /\ d.page = c.page + 1
                    /\ d.pc \in {"mp_delay", "returned"}
              /\ d.pc \in MultiPage => d.allFlights = PagesUpTo(d.page)
              /\ (c.pc \in MultiPage /\ d.pc = "returned") =>
                    /\ d.result.data.flights = PagesUpTo(d.page)
                    /\ d.result.data.meta.totalCount = Len(PagesUpTo(d.page))]_vars

\* Pages 0, 1 and 2 were fetched, page 3 was refused.
C22_Witness ==
    \E p \in Procs :
        /\ calls[p].pc = "returned"
        /\ calls[p].last = "http"
        /\ calls[p].page = 3
        /\ calls[p].result.data.flights = <<0, 1, 2>>



(***************************************************************************)
(* The request timeout: C23                                                *)
(***************************************************************************)

\* What fetch rejects with when the timeout timer aborts the request.
AbortError == ErrorOf("AbortError")

RECURSIVE SumFlights(_)
SumFlights(buckets) ==
    IF buckets = <<>> THEN 0
    ELSE SumFlights(SubSeq(buckets, 1, Len(buckets) - 1)) + buckets[Len(buckets)].flights

\* The scheduled time of the flight parses and its hour, in the time zone
\* of the browser, is one of 06 .. 23.
HasBucket(flight, tz) ==
    /\ flight.scheduleDateTime.kind = "iso"
    /\ GetHours(flight.scheduleDateTime, tz).n \in 6 .. 23

\* C24: a flight whose scheduled time does not parse or whose hour is
\* outside 06 .. 23 is counted in no bucket and does not end the pass: for
\* every pier the 18 bucket counts add up to the number of its flights
\* that have a bucket, which is at most the flight count of the pier and
\* equal to it when all its flights have one.
C24_BucketSum ==
    Aggregated =>
        \A j \in 1 .. Len(chart.pierData) :
            LET pier == chart.pierData[j]
                buckets == chart.hourlyDensity[pier.pier]
                mine == {i \in 1 .. Len(chart.feed) : PierKeyOf(chart.feed[i]) = pier.pier}
                counted == {i \in mine : HasBucket(chart.feed[i], chart.tz)}
            IN  /\ Len(buckets) = 18
                /\ SumFlights(buckets) = Cardinality(counted)
                /\ SumFlights(buckets) <= pier.flights
                /\ counted = mine => SumFlights(buckets) = pier.flights

\* A pier with a counted flight and a flight whose time does not parse,
\* and a pier whose flight is scheduled before 06:00.
C24_Witness ==
    /\ Aggregated
    /\ \E j \in 1 .. Len(chart.pierData), i \in 1 .. Len(chart.feed) :
          /\ PierKeyOf(chart.feed[i]) = chart.pierData[j].pier
          /\ chart.feed[i].scheduleDateTime.kind = "bad"
          /\ chart.pierData[j].flights = 2
          /\ SumFlights(chart.hourlyDensity[chart.pierData[j].pier]) = 1
    /\ \E j \in 1 .. Len(chart.pierData), i \in 1 .. Len(chart.feed) :
          /\ PierKeyOf(chart.feed[i]) = chart.pierData[j].pier
          /\ chart.feed[i].scheduleDateTime.kind = "iso"
          /\ ~HasBucket(chart.feed[i], chart.tz)
          /\ chart.pierData[j].flights = 1
          /\ SumFlights(chart.hourlyDensity[chart.pierData[j].pier]) = 0

(***************************************************************************)
(* transformSchipholFlight: C25                                            *)
(***************************************************************************)

\* The properties of the returned record that the interface requires.
CanonicalFields ==
    {"flightName", "flightNumber", "flightDirection", "scheduleDateTime",
     "scheduleDate", "publicEstimatedOffBlockTime", "publicFlightState",
     "aircraftType", "gate", "pier", "route", "lastUpdatedAt"}

\* The defaults of the returned record, read off the raw record.
DefaultsApplied(raw, now, out) ==
    /\ \A k \in CanonicalFields : out[k].type # "undefined"
    /\ raw.flightDirection = Undefined => out.flightDirection = Str(<<"D">>)
    /\ raw.scheduleDateTime = Undefined =>
           out.scheduleDateTime = (IF raw.scheduleDate = Undefined THEN Str(<<>>)
                                   ELSE raw.scheduleDate)
    /\ raw.aircraftType.type = "string" =>
           /\ out.aircraftType.iataMain = Str(raw.aircraftType.v)
           /\ out.aircraftType.iataSub = Str(raw.aircraftType.v)
    /\ (raw.lastUpdatedAt = Undefined /\ raw.updatedAt = Undefined) =>
           out.lastUpdatedAt = Str(now)

\* C25: transformSchipholFlight throws on no raw record, every canonical
\* field of its result is defined with the stated defaults, and applying it
\* to its own result returns the same record.
C25_TotalAndIdempotent ==
    /\ norm.pc # "threw"
    /\ norm.pc \in {"once", "twice"} => DefaultsApplied(norm.raw, norm.now, norm.once)
    /\ norm.pc = "twice" => norm.twice = norm.once

\* The parts of C25 kept apart, to tell which of them the code breaks.
C25_NeverThrows == norm.pc # "threw"

C25_Defaults ==
    norm.pc \in {"once", "twice"} => DefaultsApplied(norm.raw, norm.now, norm.once)

C25_Idempotent == norm.pc = "twice" => norm.twice = norm.once

C25_IdempotentGivenScheduleTime ==
    (norm.pc = "twice" /\ Truthy(norm.raw.scheduleDateTime)) => norm.twice = norm.once

(***************************************************************************)
(* The two passes agree on the pier of a flight: C26                       *)
(***************************************************************************)

\* The flights of the response the hourly pass filters into the pier.
HourlyFlightsOf(pierKey) ==
    {i \in 1 .. Len(chart.feed) : HourlyPierKeyOf(chart.feed[i]) = pierKey}

\* C26: the hourly pass derives for every flight the pier key the
\* statistics pass derived, so a flight with a non-empty key is filtered
\* into the hourly buckets of exactly one pier, the one whose statistic
\* counted it; and every statistic has flights = arrivals + departures.
C26_PassesAgree ==
    Aggregated =>
        /\ \A i \in 1 .. Len(chart.feed) :
              LET flight == chart.feed[i]
              IN  /\ HourlyPierKeyOf(flight) = PierKeyOf(flight)
                  /\ PierKeyOf(flight) # "" =>
                        /\ PierKeyOf(flight) \in DOMAIN chart.hourlyDensity
                        /\ {k \in DOMAIN chart.hourlyDensity : i \in HourlyFlightsOf(k)}
                               = {PierKeyOf(flight)}
        /\ \A j \in 1 .. Len(chart.pierData) :
              LET pier == chart.pierData[j]
              IN  /\ pier.flights = pier.arrivals + pier.departures
                  /\ pier.flights = Cardinality(HourlyFlightsOf(pier.pier))
                  /\ SumFlights(chart.hourlyDensity[pier.pier]) =
                        Cardinality({i \in HourlyFlightsOf(pier.pier) :
                                        HasBucket(chart.feed[i], chart.tz)})

\* A response with a flight of D-Schengen and, in pier D, a departure at a
\* gate outside both ranges and an arrival without a gate.
C26_Witness ==
    /\ Aggregated
    /\ \E i \in 1 .. Len(chart.feed) : PierKeyOf(chart.feed[i]) = "D-Schengen"
    /\ \E i \in 1 .. Len(chart.feed) :
          /\ chart.feed[i].gate # <<>>
          /\ PierKeyOf(chart.feed[i]) = "D"
    /\ \E j \in 1 .. Len(chart.pierData) :
          /\ chart.pierData[j].pier = "D"
          /\ chart.pierData[j].arrivals = 1
          /\ chart.pierData[j].departures = 1
          /\ SumFlights(chart.hourlyDensity["D"]) = 1

(***************************************************************************)
(* Automatic selection of the first pier: C27                              *)
(***************************************************************************)

\* C27: a run of fetchData that ends while a pier is selected leaves the
\* selection as it is, and a run that ends successfully with at least one
\* pier while no pier is selected selects the first pier.
C27_AutoSelectOnlyWhenNoneSelected ==
    [][RunEnds =>
          /\ chart.selectedPier # "" => chart'.selectedPier = chart.selectedPier
          /\ (chart.selectedPier = "" /\ chart'.last = "succeeded"
                  /\ Len(chart'.pierData) > 0) =>
                chart'.selectedPier = chart'.pierData[1].pier]_vars

(***************************************************************************)
(* dbConnect: C28                                                          *)
(***************************************************************************)

Awaiting(cache, a) ==
    {p \in DbCallers : cache.callers[p].pc = "awaiting" /\ cache.callers[p].awaits = a}

\* At most one attempt is pending, it is the one of cached.promise, and no
\* attempt is pending once a connection is stored.
OneAttempt(cache) ==
    /\ Cardinality(Pending(cache)) <= 1
    /\ \A a \in Pending(cache) : cache.promise = a /\ cache.conn = 0

\* After a failed attempt, once its waiters have run, cached.promise is not
\* the failed attempt: it is null or a later attempt; and cached.conn is
\* null unless an attempt succeeded.
ResetAfterFailure(cache) ==
    /\ \A a \in 1 .. MaxAttempts :
          (cache.status[a] = "rejected" /\ Awaiting(cache, a) = {}) =>
              cache.promise # a
    /\ (\A a \in 1 .. MaxAttempts : cache.status[a] # "resolved") => cache.conn = 0
    /\ (cache.promise = 0 /\ cache.jobs = <<>>) => Pending(cache) = {}

\* A step in which caller p calls dbConnect.
Calls(p) == db.callers[p].pc # "awaiting" /\ db'.callers[p] # db.callers[p]

\* C28: at most one connection attempt is in flight at any time.  A call
\* that arrives while an attempt is pending awaits that attempt; a call that
\* arrives once a connection is stored returns it, and no attempt is ever
\* started then; after a failed attempt cached.promise is reset to null
\* with cached.conn still null, and the next call starts exactly one
\* attempt.
C28_OneAttemptInFlight ==
    [][/\ OneAttempt(db')
       /\ ResetAfterFailure(db')
       /\ db.conn # 0 => (db'.started = db.started /\ db'.conn = db.conn)
       /\ \A p \in DbCallers :
             Calls(p) =>
                 IF db.conn # 0
                 THEN db'.callers[p] = [pc |-> "returned", awaits |-> 0, got |-> db.conn]
                 ELSE IF Pending(db) # {}
                 THEN /\ db'.callers[p].pc = "awaiting"
                      /\ db'.callers[p].awaits \in Pending(db)
                      /\ db'.started = db.started
                 ELSE /\ db'.started = db.started + 1
                      /\ db'.callers[p].pc = "awaiting"
                      /\ Pending(db') = {db'.callers[p].awaits}]_vars

\* After a failed first attempt, two calls await the second attempt.
C28_Witness ==
    /\ db.status[1] = "rejected"
    /\ db.status[2] = "pending"
    /\ Cardinality(Awaiting(db, 2)) >= 2
    /\ \E p \in DbCallers : db.callers[p].pc = "threw"

=============================================================================
